---- MODULE Spec2Model ----
(***************************************************************************)
(* Model of the AroundMe discovery service: the deduper                    *)
(* (app/fusion/dedupe.py), the ranker (app/fusion/ranking.py) and the      *)
(* follow-up path of the /search route (app/routes/search.py,              *)
(* app/services/search_service.py, app/cache/result_store.py).             *)
(*                                                                         *)
(* Python lists are modelled as sequences indexed from 1; an absent        *)
(* Optional value is NoneVal.  Floating point quantities are fixed point:  *)
(* ratings in tenths, distances in tenths of a kilometre, scores and       *)
(* bonuses in thousandths of a point, confidences in thousandths.          *)
(***************************************************************************)
EXTENDS Integers, Sequences, FiniteSets, TLC

\* Python None in an Optional numeric field (all such fields are >= 0)
NoneVal == -1
\* Python None where the value would be a string
NoneStr == "None"

\* ---------------------------------------------------------------------
\* State
\* ---------------------------------------------------------------------
VARIABLES
    \* one deduplicate_places call
    dd_pc,        \* "idle" | "pairs" | "group" | "select" | "done"
    dd_places,    \* the input list
    dd_parent,    \* union-find parent array
    dd_i, dd_j,   \* loop counters of cluster_duplicates
    dd_clusters,  \* the clusters dict (insertion order)
    dd_dedup,     \* returned list of representatives (as input positions)
    dd_stats,     \* returned stats dict
    \* one rank_places_async / rank_places call
    rk_pc,        \* "idle" | "scoring" | "sort" | "done"
    rk_mode,      \* "async" (rank_places_async) | "sync" (rank_places)
    rk_places, rk_preset, rk_filters, rk_reqs,   \* the arguments
    rk_scored,    \* the list "scored"
    rk_calls,     \* per input place and requirement: the methods that were called
    \* one apply_followup_filters call, and a second one on its own output
    fu_pc,        \* "idle" | "filter" | "sort" | "truncate" | "done"
    fu_round,     \* 1: the call on a stored result set, 2: on the output of 1
    fu_places,    \* the argument "places"
    fu_intent,    \* the argument "intent" (a FollowUpIntent)
    fu_top_k,     \* request.top_k
    fu_filtered,  \* the list "filtered_places"
    fu_first,     \* places returned by the call of round 1
    \* the POST /search route, SearchService and the two stores
    place_cache,    \* routes/search.py _place_cache: place id -> place dict
    result_sets,    \* routes/search.py _result_sets: result_set_id -> place ids
    redis_sets,     \* Redis keys result_set:<id> -> stored result set
    redis_conv,     \* Redis keys conversation:<id> -> latest result_set_id
    redis_search,   \* Redis keys search:<hash> -> cached response
    next_uuid,      \* uuid4(): the next value never returned before
    rt_age,         \* seconds since the route stored each of its result sets
    rt_pc,          \* "idle" | "service" | "handle_followup" | "store"
    rt_req,         \* the request object (the handlers assign to its fields)
    rt_resp,        \* the response being built
    rt_site,        \* which store block of the route runs: "followup" | "normal"
    rt_intent,      \* the intent parse_followup returned for this request
    rt_entries,     \* calls of _handle_followup made for this request
    rt_absent,      \* the request named a result_set_id the route did not find
    rt_count,       \* requests answered so far
    rt_last,        \* what the last answered request returned
    \* GET /place/{place_id}
    pd_last,        \* what the last place lookup returned
    \* direct calls of ResultStore
    st_written,     \* result_set_id -> what store_result_set was called with
    st_read,        \* what the last get_result_set / get_latest_result_set returned
    \* one search_google_places / search_yelp_places call
    pv_pc,          \* "idle" | "request" | "done"
    pv_provider,    \* "google" | "yelp"
    pv_key,         \* the provider's API key is configured
    pv_script,      \* what the upstream answers to the 1st, 2nd, ... request
    pv_requests,    \* HTTP requests sent so far
    pv_count,       \* len(places) so far
    pv_result,      \* len of the returned list, NoneVal before the return
    \* one constraint_join_node call
    cj_pc,          \* "idle" | "score_rank" | "format_answer" | "done"
    cj_fused,       \* state["fused_results"] on entry
    cj_intent,      \* state["parsed_intent"]
    cj_result,      \* state["fused_results"] on return
    cj_partners,    \* state["debug"]["matched_partners"], keys 0, 1, ... as 1, 2, ...
    cj_scored,      \* state["scored_results"]
    cj_places,      \* state["places"]
    \* one DiscoveryAgent.run call
    ag_pc,          \* "idle", the node about to run, or "done"
    ag_env,         \* what the LLM, the providers and the embedder do in this run
    ag_state,       \* the AgentState dict
    ag_return,      \* (places, debug) returned by run
    \* one select_representative call
    sr_pc,          \* "idle" | "done"
    sr_cluster,     \* the argument "cluster"
    sr_result,      \* position in the cluster of the returned place, 0 before
    \* one BaseProvider._request_with_retry call
    rr_pc,          \* "idle" | "attempt" | "sleep" | "returned" | "raised"
    rr_max,         \* self.max_retries
    rr_script,      \* what the upstream answers to the 1st, 2nd, ... request
    rr_attempt,     \* the loop variable "attempt"
    rr_requests,    \* client.request calls made
    rr_waits,       \* the arguments of the asyncio.sleep calls made
    \* concurrent get_embedding calls
    em_cache,       \* semantic_matcher._embedding_cache: cache key -> embedding
    em_calls,       \* per coroutine: [pc, text, result]
    \* SearchService.search around DiscoveryAgent.run, one request sent twice
    sv_req,         \* 0 before the request, 1 at its first sending, 2 at its second
    sv_cache,       \* the search: key of the request in Redis
    sv_sets,        \* the place lists store_result_set was called with
    sv_runs,        \* calls of DiscoveryAgent.run
    sv_live,        \* the search: key had not expired when the request came again
    sv_resp         \* the responses returned, in order

dd_vars == <<dd_pc, dd_places, dd_parent, dd_i, dd_j, dd_clusters, dd_dedup, dd_stats>>
rk_vars == <<rk_pc, rk_mode, rk_places, rk_preset, rk_filters, rk_reqs, rk_scored, rk_calls>>

\* what the actions of one component leave alone
fu_vars == <<fu_pc, fu_round, fu_places, fu_intent, fu_top_k, fu_filtered, fu_first>>

store_vars == <<place_cache, result_sets, redis_sets, redis_conv, redis_search, next_uuid, rt_age>>
rt_vars == <<store_vars, rt_pc, rt_req, rt_resp, rt_site, rt_intent, rt_entries, rt_absent, rt_count, rt_last>>

pd_vars == <<pd_last>>
st_vars == <<st_written, st_read>>
pv_vars == <<pv_pc, pv_provider, pv_key, pv_script, pv_requests, pv_count, pv_result>>
cj_vars == <<cj_pc, cj_fused, cj_intent, cj_result, cj_partners, cj_scored, cj_places>>
ag_vars == <<ag_pc, ag_env, ag_state, ag_return>>
sr_vars == <<sr_pc, sr_cluster, sr_result>>
rr_vars == <<rr_pc, rr_max, rr_script, rr_attempt, rr_requests, rr_waits>>
em_vars == <<em_cache, em_calls>>
sv_vars == <<sv_req, sv_cache, sv_sets, sv_runs, sv_live, sv_resp>>

dd_others == <<rk_vars, fu_vars, rt_vars, pd_vars, st_vars, pv_vars, cj_vars, ag_vars, sr_vars, rr_vars, em_vars, sv_vars>>
rk_others == <<dd_vars, fu_vars, rt_vars, pd_vars, st_vars, pv_vars, cj_vars, ag_vars, sr_vars, rr_vars, em_vars, sv_vars>>
fu_others == <<dd_vars, rk_vars, rt_vars, pd_vars, st_vars, pv_vars, cj_vars, ag_vars, sr_vars, rr_vars, em_vars, sv_vars>>
rt_others == <<dd_vars, rk_vars, fu_vars, pd_vars, st_vars, pv_vars, cj_vars, ag_vars, sr_vars, rr_vars, em_vars, sv_vars>>
pd_others == <<dd_vars, rk_vars, fu_vars, st_vars, pv_vars, cj_vars, ag_vars, sr_vars, rr_vars, em_vars, sv_vars>>
st_others == <<dd_vars, rk_vars, fu_vars, pd_vars, pv_vars, cj_vars, ag_vars, sr_vars, rr_vars, em_vars, sv_vars>>
pv_others == <<dd_vars, rk_vars, fu_vars, rt_vars, pd_vars, st_vars, cj_vars, ag_vars, sr_vars, rr_vars, em_vars, sv_vars>>
cj_others == <<dd_vars, rk_vars, fu_vars, rt_vars, pd_vars, st_vars, pv_vars, ag_vars, sr_vars, rr_vars, em_vars, sv_vars>>
ag_others == <<dd_vars, rk_vars, fu_vars, rt_vars, pd_vars, st_vars, pv_vars, cj_vars, sr_vars, rr_vars, em_vars, sv_vars>>
sr_others == <<dd_vars, rk_vars, fu_vars, rt_vars, pd_vars, st_vars, pv_vars, cj_vars, ag_vars,
               rr_vars, em_vars, sv_vars>>
rr_others == <<dd_vars, rk_vars, fu_vars, rt_vars, pd_vars, st_vars, pv_vars, cj_vars, ag_vars,
               sr_vars, em_vars, sv_vars>>
em_others == <<dd_vars, rk_vars, fu_vars, rt_vars, pd_vars, st_vars, pv_vars, cj_vars, ag_vars,
               sr_vars, rr_vars, sv_vars>>
sv_others == <<dd_vars, rk_vars, fu_vars, rt_vars, pd_vars, st_vars, pv_vars, cj_vars,
               sr_vars, rr_vars, em_vars>>

vars == <<dd_vars, rk_vars, fu_vars, rt_vars, pd_vars, st_vars, pv_vars, cj_vars, ag_vars, sr_vars,
          rr_vars, em_vars, sv_vars>>

\* ---------------------------------------------------------------------
\* Generic helpers
\* ---------------------------------------------------------------------
Min(a, b) == IF a <= b THEN a ELSE b
Max(a, b) == IF a >= b THEN a ELSE b

RECURSIVE SeqsUpTo(_, _)
\* all sequences over S of length 0..n
SeqsUpTo(S, n) ==
    IF n = 0 THEN {<<>>}
    ELSE LET shorter == SeqsUpTo(S, n - 1)
         IN  shorter \cup {Append(s, x) : s \in {t \in shorter : Len(t) = n - 1}, x \in S}

RECURSIVE SumSeq(_)
SumSeq(s) == IF s = <<>> THEN 0 ELSE Head(s) + SumSeq(Tail(s))

RECURSIVE FlattenSeq(_)
FlattenSeq(ss) == IF ss = <<>> THEN <<>> ELSE Head(ss) \o FlattenSeq(Tail(ss))

SeqRange(s) == {s[k] : k \in DOMAIN s}

\* =====================================================================
\* Deduper  (app/fusion/dedupe.py)
\* =====================================================================
MaxPlaces == 3

DedupeProviders == {"google", "yelp"}
DedupeNames == {"Blue Bottle Coffee, Inc", "Starbucks"}
\* positions in metres along one meridian: the haversine distance of two
\* records is the difference of their positions
DedupePositions == {0, 100, 200}

DedupeRecords ==
    [provider : DedupeProviders, name : DedupeNames, pos : DedupePositions,
     user_rating_count : {100}, rating : {45}]

\* settings.name_similarity_threshold * 100 and settings.geo_distance_threshold_m
NameThreshold == 82
GeoThresholdM == 120

\* normalize_name: lower case, one trailing business suffix and the
\* punctuation removed, white space collapsed
NormalizeName(name) ==
    CASE name = "Blue Bottle Coffee, Inc" -> "blue bottle coffee"
      [] name = "Starbucks" -> "starbucks"
      [] OTHER -> name

\* rapidfuzz.fuzz.partial_ratio on normalized names: 100 on equal strings;
\* the best alignment of "starbucks" inside "blue bottle coffee" shares 3 of
\* 9 characters ("b", "c" and one more in order), a ratio far below 82
PartialRatio(n1, n2) == IF n1 = n2 THEN 100 ELSE 33

calculate_distance_m(p1, p2) ==
    IF p1.pos >= p2.pos THEN p1.pos - p2.pos ELSE p2.pos - p1.pos

are_duplicates(place1, place2) ==
    LET name_sim   == PartialRatio(NormalizeName(place1.name), NormalizeName(place2.name))
        geo_dist_m == calculate_distance_m(place1, place2)
    IN  name_sim >= NameThreshold /\ geo_dist_m <= GeoThresholdM

\* --- union-find with path compression (cluster_duplicates.find/union) ---
RECURSIVE FindRoot(_, _)
FindRoot(parent, i) == IF parent[i] = i THEN i ELSE FindRoot(parent, parent[i])

RECURSIVE FindPath(_, _)
\* the nodes find(i) visits and re-parents: i, parent[i], ... up to the root
FindPath(parent, i) == IF parent[i] = i THEN {} ELSE {i} \cup FindPath(parent, parent[i])

\* parent after find(i): every visited non-root node points at the root
FindCompress(parent, i) ==
    LET root == FindRoot(parent, i)
        path == FindPath(parent, i)
    IN  [k \in DOMAIN parent |-> IF k \in path THEN root ELSE parent[k]]

\* a union that re-parents j itself instead of the root of j
UnionAtNode(parent, i, j) == [parent EXCEPT ![j] = FindRoot(parent, i)]

Union(parent, i, j) ==
    LET p1     == FindCompress(parent, i)
        root_i == FindRoot(parent, i)
        p2     == FindCompress(p1, j)
        root_j == FindRoot(p1, j)
    IN  IF root_i # root_j THEN [p2 EXCEPT ![root_j] = root_i] ELSE p2

\* a grouping that puts a new cluster in front of the older ones
GroupAddInFront(clusters, root, i) ==
    IF \E k \in DOMAIN clusters : clusters[k].root = root
    THEN [k \in DOMAIN clusters |->
            IF clusters[k].root = root
            THEN [clusters[k] EXCEPT !.members = Append(@, i)]
            ELSE clusters[k]]
    ELSE <<[root |-> root, members |-> <<i>>]>> \o clusters

\* clusters is the dict of cluster_duplicates in insertion order: a sequence
\* of [root, members], members being input positions in append order
GroupAdd(clusters, root, i) ==
    IF \E k \in DOMAIN clusters : clusters[k].root = root
    THEN [k \in DOMAIN clusters |->
            IF clusters[k].root = root
            THEN [clusters[k] EXCEPT !.members = Append(@, i)]
            ELSE clusters[k]]
    ELSE Append(clusters, [root |-> root, members |-> <<i>>])

\* --- select_representative ---
ProviderRank(p) == IF p.provider = "google" THEN 0 ELSE 1

OrZero(v) == IF v = NoneVal THEN 0 ELSE v

\* the key without its provider component
sort_key_unranked(place) ==
    <<-OrZero(place.user_rating_count), -OrZero(place.rating), 0>>

\* sort_key(place): (-(count or 0), -(rating or 0), 0 if google else 1)
sort_key(place) ==
    <<-OrZero(place.user_rating_count), -OrZero(place.rating), ProviderRank(place)>>

\* s < t in Python's order of tuples of equal length
TupleLess(s, t) ==
    \E k \in DOMAIN s : s[k] < t[k] /\ \A m \in 1..(k - 1) : s[m] = t[m]

\* sort_key(a) < sort_key(b)
SortKeyLess(a, b) == TupleLess(sort_key(a), sort_key(b))

\* position n of the cluster inserted into the sorted prefix: behind every
\* position whose key is not greater, which keeps sorted() stable
InsertPosition(sorted, cluster, n) ==
    LET later == {k \in DOMAIN sorted : SortKeyLess(cluster[n], cluster[sorted[k]])}
        at    == IF later = {} THEN Len(sorted) + 1
                 ELSE CHOOSE k \in later : \A m \in later : k <= m
    IN  SubSeq(sorted, 1, at - 1) \o <<n>> \o SubSeq(sorted, at, Len(sorted))

RECURSIVE SortedPositions(_, _)
\* sorted(cluster, key=sort_key) over the first n members, as positions
SortedPositions(cluster, n) ==
    IF n = 0 THEN <<>>
    ELSE InsertPosition(SortedPositions(cluster, n - 1), cluster, n)

\* index (within the cluster) of sorted(cluster, key=sort_key)[0]
select_representative_index(cluster) ==
    IF Len(cluster) = 1 THEN 1
    ELSE Head(SortedPositions(cluster, Len(cluster)))

select_representative(cluster) == cluster[select_representative_index(cluster)]

DedupeInit ==
    /\ dd_pc = "idle"
    /\ dd_places = <<>>
    /\ dd_parent = <<>>
    /\ dd_i = 1
    /\ dd_j = 2
    /\ dd_clusters = <<>>
    /\ dd_dedup = <<>>
    /\ dd_stats = <<>>

\* deduplicate_places(places) is entered; the empty list returns at once
DeduplicateCall ==
    /\ dd_pc = "idle"
    /\ \E input \in SeqsUpTo(DedupeRecords, MaxPlaces) :
        /\ dd_places' = input
        /\ dd_clusters' = <<>>
        /\ dd_dedup' = <<>>
        /\ dd_i' = 1
        /\ dd_j' = 2
        /\ IF input = <<>>
           THEN /\ dd_pc' = "done"
                /\ dd_parent' = <<>>
                /\ dd_stats' = [k \in {"input_count", "output_count", "clusters_found"} |-> 0]
           ELSE /\ dd_pc' = IF Len(input) >= 2 THEN "pairs" ELSE "group"
                /\ dd_parent' = [k \in 1..Len(input) |-> k]
                /\ dd_stats' = <<>>
    /\ UNCHANGED dd_others

\* one iteration of the inner loop "for j in range(i + 1, n)"
PairStep ==
    /\ dd_pc = "pairs"
    /\ LET n == Len(dd_places) IN
        /\ dd_parent' = IF are_duplicates(dd_places[dd_i], dd_places[dd_j])
                        THEN Union(dd_parent, dd_i, dd_j)
                        ELSE dd_parent
        /\ IF dd_j < n
           THEN /\ dd_j' = dd_j + 1
                /\ UNCHANGED <<dd_i, dd_pc>>
           ELSE IF dd_i + 1 < n
                THEN /\ dd_i' = dd_i + 1
                     /\ dd_j' = dd_i + 2
                     /\ UNCHANGED dd_pc
                ELSE /\ dd_i' = 1
                     /\ dd_j' = 2
                     /\ dd_pc' = "group"
    /\ UNCHANGED <<dd_places, dd_clusters, dd_dedup, dd_stats, dd_others>>

\* one iteration of "for i in range(n): root = find(i); clusters[root].append"
GroupStep ==
    /\ dd_pc = "group"
    /\ LET root == FindRoot(dd_parent, dd_i) IN
        /\ dd_parent' = FindCompress(dd_parent, dd_i)
        /\ dd_clusters' = GroupAdd(dd_clusters, root, dd_i)
    /\ IF dd_i < Len(dd_places)
       THEN dd_i' = dd_i + 1 /\ UNCHANGED dd_pc
       ELSE dd_i' = 1 /\ dd_pc' = "select"
    /\ UNCHANGED <<dd_places, dd_j, dd_dedup, dd_stats, dd_others>>

ClusterPlaces(c) == [k \in DOMAIN c.members |-> dd_places[c.members[k]]]

\* the representative loop and the stats of deduplicate_places
SelectStep ==
    /\ dd_pc = "select"
    /\ LET dedup == [k \in DOMAIN dd_clusters |->
                        dd_clusters[k].members[
                            select_representative_index(ClusterPlaces(dd_clusters[k]))]]
       IN /\ dd_dedup' = dedup
          /\ dd_stats' = [k \in {"input_count", "output_count", "clusters_found",
                                 "duplicates_removed"} |->
                            CASE k = "input_count" -> Len(dd_places)
                              [] k = "output_count" -> Len(dedup)
                              [] k = "clusters_found" -> Len(dd_clusters)
                              [] OTHER -> Len(dd_places) - Len(dedup)]
    /\ dd_pc' = "done"
    /\ UNCHANGED <<dd_places, dd_parent, dd_i, dd_j, dd_clusters, dd_others>>

DedupeNext == DeduplicateCall \/ PairStep \/ GroupStep \/ SelectStep

\* members of every cluster, as input positions
ClusterMembers == [k \in DOMAIN dd_clusters |-> dd_clusters[k].members]

\* the clusters partition the input positions
ClustersPartition ==
    LET flat == FlattenSeq(ClusterMembers)
    IN  /\ \A k \in DOMAIN dd_clusters : Len(dd_clusters[k].members) >= 1
        /\ Len(flat) = Len(dd_places)
        /\ SeqRange(flat) = 1..Len(dd_places)
        /\ \A p \in 1..Len(dd_places) :
              Cardinality({k \in DOMAIN dd_clusters :
                              p \in SeqRange(dd_clusters[k].members)}) = 1

\* one representative per cluster, taken from that cluster
RepresentativePerCluster ==
    /\ Len(dd_dedup) = Len(dd_clusters)
    /\ \A k \in DOMAIN dd_clusters : dd_dedup[k] \in SeqRange(dd_clusters[k].members)

StatsComplete ==
    /\ DOMAIN dd_stats = {"input_count", "output_count", "clusters_found", "duplicates_removed"}
    /\ dd_stats["input_count"] = Len(dd_places)
    /\ dd_stats["output_count"] = Len(dd_clusters)
    /\ dd_stats["clusters_found"] = Len(dd_clusters)
    /\ dd_stats["duplicates_removed"] = dd_stats["input_count"] - dd_stats["output_count"]

\* C1: when deduplicate_places has returned, the clusters partition the input
\* by position, there is one representative per cluster taken from it, and
\* the stats carry input_count, output_count = clusters_found and
\* duplicates_removed = input_count - output_count, for every input list
C1_PartitionAndStats ==
    dd_pc = "done" => ClustersPartition /\ RepresentativePerCluster /\ StatsComplete

\* the partition and representative part alone (holds for every input)
DedupePartitionHolds ==
    dd_pc \in {"select", "done"} =>
        ClustersPartition /\ (dd_pc = "done" => RepresentativePerCluster)

\* are_duplicates as cluster_duplicates asks it: on the pair in input order
Linked(p, q) ==
    p # q /\ are_duplicates(dd_places[Min(p, q)], dd_places[Max(p, q)])

RECURSIVE ChainFrom(_, _)
\* the positions a chain of at most k links reaches from the set ps
ChainFrom(ps, k) ==
    IF k = 0 THEN ps
    ELSE ChainFrom(ps \cup {q \in DOMAIN dd_places : \E p \in ps : Linked(p, q)}, k - 1)

Chained(p, q) == q \in ChainFrom({p}, Len(dd_places))

SameCluster(p, q) ==
    \E k \in DOMAIN dd_clusters :
        p \in SeqRange(dd_clusters[k].members) /\ q \in SeqRange(dd_clusters[k].members)

\* C20: when cluster_duplicates has returned, two input records are in the
\* same cluster iff a chain of pairwise duplicates connects them
C20_ClustersAreComponents ==
    dd_pc \in {"select", "done"} =>
        \A p, q \in DOMAIN dd_places : SameCluster(p, q) <=> Chained(p, q)

\* records a and c that are not duplicates of each other, clustered through
\* b, the middle one coming last in the input
C20_Witness ==
    /\ dd_pc = "done"
    /\ Len(dd_places) = 3
    /\ ~Linked(1, 2) /\ Linked(1, 3) /\ Linked(2, 3)
    /\ SameCluster(1, 2)
    /\ Len(dd_clusters) = 1

\* =====================================================================
\* Ranker  (app/fusion/ranking.py)
\* =====================================================================
MaxRankPlaces == 2

Presets == {"balanced", "nearby", "review-heavy"}

\* the "points" table of rank_places_async / rank_places (the else branch
\* is the balanced triple again)
PresetPoints(preset) ==
    CASE preset = "nearby"       -> [rating |-> 35, reviews |-> 20, distance |-> 45]
      [] preset = "review-heavy" -> [rating |-> 45, reviews |-> 50, distance |-> 5]
      [] OTHER                   -> [rating |-> 55, reviews |-> 30, distance |-> 15]

\* math.log1p(n) / 8.0 in thousandths, for the review counts of the model
Log1pOver8Milli(n) ==
    CASE n = 100  -> 577
      [] n = 3000 -> 1001
      [] OTHER    -> 0

\* requirements as produced by the requirement extractor
ReqWifi  == [requirement |-> "WiFi",  lower |-> "wifi",
             keywords |-> <<"wifi", "internet", "wireless">>, category |-> "feature"]
ReqQuiet == [requirement |-> "Quiet", lower |-> "quiet",
             keywords |-> <<"quiet">>, category |-> "quality"]
RequirementLists == {<<>>, <<ReqWifi>>, <<ReqWifi, ReqQuiet>>}

\* a text is modelled by the set of vocabulary terms it contains as substrings
Vocabulary == {"wifi", "internet", "wireless", "quiet"}

\* amenity_mapping restricted to the vocabulary: keyword -> raw fields
AmenityMappingKeys == {"wifi"}
AmenityMapping(key) == <<"wifi", "internet", "wireless">>

\* price filters of a request: none, or the inclusive range [min, max]
PriceFilters == {<<>>, <<1, 3>>}

\* ranked places: base signals and the data the four methods read
BaseSignals ==
    [rating : {NoneVal, 45, 50}, user_rating_count : {NoneVal, 3000},
     distance_km : {0, 10, 100}, price_level : {NoneVal, 2}]

SemanticOracle ==
    {[r \in {"WiFi", "Quiet"} |-> IF r = "WiFi" THEN a ELSE b] :
        a \in {NoneVal, 6000, 7563, 10000}, b \in {NoneVal, 8000}}

MatchData ==
    [raw_true : {{}, {"wifi"}}, name_terms : {{}, {"wifi"}, {"quiet"}},
     editorial_terms : {{}, {"wifi"}, {"quiet"}}, semantic : SemanticOracle]

NoMatchData ==
    [raw_true |-> {}, name_terms |-> {}, editorial_terms |-> {},
     semantic |-> [r \in {"WiFi", "Quiet"} |-> NoneVal]]

MkPlace(id, b, m) ==
    [id |-> id, rating |-> b.rating, user_rating_count |-> b.user_rating_count,
     distance_km |-> b.distance_km, price_level |-> b.price_level,
     raw_true |-> m.raw_true, name_terms |-> m.name_terms,
     editorial_terms |-> m.editorial_terms, semantic |-> m.semantic]

\* places of one-element inputs: every combination of signals and match data
FullPlaces == {MkPlace(1, b, m) : b \in BaseSignals, m \in MatchData}

\* places of longer inputs: rating and distance vary, the near ones with
\* and without the structured wifi field
ListPlace(r, d, w) ==
    MkPlace(1, [rating |-> r, user_rating_count |-> 3000, distance_km |-> d,
                price_level |-> 2],
            [NoMatchData EXCEPT !.raw_true = w])

ListPlaces ==
    {ListPlace(r, d, {}) : r \in {NoneVal, 0, 45, 50}, d \in {10, 100}}
        \cup {ListPlace(r, 10, {"wifi"}) : r \in {NoneVal, 0, 45, 50}}

\* position in the input list identifies a record (provider_id)
Renumber(ps) == [k \in DOMAIN ps |-> [ps[k] EXCEPT !.id = k]]

RankInputs ==
    {Renumber(ps) : ps \in SeqsUpTo(ListPlaces, MaxRankPlaces)}
        \cup {<<p>> : p \in FullPlaces}

\* --- base contributions, in thousandths of a point ---
\* a missing rating counted as the best one
RatingPointsMissingBest(place, points) ==
    IF place.rating = NoneVal THEN 5000 * points.rating
    ELSE place.rating * points.rating * 20

RatingPoints(place, points) ==
    IF place.rating # NoneVal /\ place.rating # 0
    THEN place.rating * points.rating * 20
    ELSE 0

ReviewPoints(place, points) ==
    IF place.user_rating_count # NoneVal /\ place.user_rating_count # 0
    THEN Min(1000, Log1pOver8Milli(place.user_rating_count)) * points.reviews
    ELSE 0

MaxDistanceKm == 100

DistancePoints(place, points) ==
    IF place.distance_km = NoneVal THEN 0
    ELSE IF place.distance_km <= MaxDistanceKm
         THEN (1000 - (Min(place.distance_km, MaxDistanceKm) * 1000) \div MaxDistanceKm)
                  * points.distance
         ELSE 0

PriceBonus == 5000

PricePoints(place, filters) ==
    IF filters # <<>> /\ place.price_level # NoneVal
    THEN IF filters[1] <= place.price_level /\ place.price_level <= filters[2]
         THEN PriceBonus ELSE 0
    ELSE 0

BasePoints(place, preset, filters) ==
    LET points == PresetPoints(preset)
    IN  RatingPoints(place, points) + ReviewPoints(place, points)
          + DistancePoints(place, points) + PricePoints(place, filters)

\* --- the four methods ---
RECURSIVE FirstTrueField(_, _)
\* first field of the list that raw data holds as True, or NoneStr
FirstTrueField(fields, raw_true) ==
    IF fields = <<>> THEN NoneStr
    ELSE IF Head(fields) \in raw_true THEN Head(fields)
    ELSE FirstTrueField(Tail(fields), raw_true)

RECURSIVE StructuredExact(_, _)
StructuredExact(keywords, raw_true) ==
    IF keywords = <<>> THEN NoneStr
    ELSE LET hit == IF Head(keywords) \in AmenityMappingKeys
                    THEN FirstTrueField(AmenityMapping(Head(keywords)), raw_true)
                    ELSE NoneStr
         IN  IF hit # NoneStr THEN hit ELSE StructuredExact(Tail(keywords), raw_true)

\* METHOD 1: exact keyword lookups, then key terms contained in the
\* lower-cased requirement name
check_structured_amenities(place, req) ==
    LET exact == StructuredExact(req.keywords, place.raw_true)
    IN  IF exact # NoneStr THEN exact
        ELSE IF req.lower \in AmenityMappingKeys
             THEN FirstTrueField(AmenityMapping(req.lower), place.raw_true)
             ELSE NoneStr

\* a place text that leaves the editorial summary out
place_text_without_editorial(place) == place.name_terms

\* terms contained in name + category + address + types + editorial summary
\* + readable amenities (no readable amenity of the model is in the vocabulary)
build_comprehensive_place_text(place) == place.name_terms \cup place.editorial_terms

RECURSIVE FirstKeywordIn(_, _)
FirstKeywordIn(keywords, terms) ==
    IF keywords = <<>> THEN NoneStr
    ELSE IF Head(keywords) \in terms THEN Head(keywords)
    ELSE FirstKeywordIn(Tail(keywords), terms)

\* METHOD 2
check_keyword_match(place, req) ==
    FirstKeywordIn(req.keywords, build_comprehensive_place_text(place))

SemanticThreshold == 7500

\* METHOD 3: the best cosine similarity (ten-thousandths) when it reaches the
\* threshold; NoneVal when nothing reaches it or the embedding call fails
check_semantic_match(place, req) ==
    LET sim == place.semantic[req.requirement]
    IN  IF sim # NoneVal /\ sim >= SemanticThreshold THEN sim ELSE NoneVal

\* METHOD 4
check_review_mentions(place, req) ==
    IF place.editorial_terms = {} THEN NoneStr
    ELSE FirstKeywordIn(req.keywords, place.editorial_terms)

StructuredConfidence == 10000
KeywordConfidence == 8000
ReviewConfidence == 7000

\* the chain with the keyword method asked before the structured one
MatchRequirementKeywordFirst(place, req, mode) ==
    IF check_keyword_match(place, req) # NoneStr
    THEN [method |-> "keyword", confidence |-> KeywordConfidence]
    ELSE IF check_structured_amenities(place, req) # NoneStr
    THEN [method |-> "structured_data", confidence |-> StructuredConfidence]
    ELSE IF mode = "async" /\ check_semantic_match(place, req) # NoneVal
    THEN [method |-> "semantic", confidence |-> check_semantic_match(place, req)]
    ELSE IF mode = "async" /\ check_review_mentions(place, req) # NoneStr
    THEN [method |-> "review", confidence |-> ReviewConfidence]
    ELSE [method |-> NoneStr, confidence |-> 0]

\* the method chain of one (place, requirement) pair: [method, confidence],
\* confidence in ten-thousandths; mode "sync" is rank_places (methods 1-2)
MatchRequirement(place, req, mode) ==
    IF check_structured_amenities(place, req) # NoneStr
    THEN [method |-> "structured_data", confidence |-> StructuredConfidence]
    ELSE IF check_keyword_match(place, req) # NoneStr
    THEN [method |-> "keyword", confidence |-> KeywordConfidence]
    ELSE IF mode = "async" /\ check_semantic_match(place, req) # NoneVal
    THEN [method |-> "semantic", confidence |-> check_semantic_match(place, req)]
    ELSE IF mode = "async" /\ check_review_mentions(place, req) # NoneStr
    THEN [method |-> "review", confidence |-> ReviewConfidence]
    ELSE [method |-> NoneStr, confidence |-> 0]

\* the check_* functions one pass of "for req in normalized_requirements"
\* calls, in call order: method 1 always, the others under "if not matched"
MethodsCalled(place, req, mode) ==
    LET m1 == check_structured_amenities(place, req) # NoneStr
        m2 == ~m1 /\ check_keyword_match(place, req) # NoneStr
        m3 == ~m1 /\ ~m2 /\ mode = "async" /\ check_semantic_match(place, req) # NoneVal
    IN  <<"structured_data">>
          \o (IF ~m1 THEN <<"keyword">> ELSE <<>>)
          \o (IF ~m1 /\ ~m2 /\ mode = "async" THEN <<"semantic">> ELSE <<>>)
          \o (IF ~m1 /\ ~m2 /\ ~m3 /\ mode = "async" THEN <<"review">> ELSE <<>>)

\* round(x, 2) of a value held in units of 1/(100 * unit): nearest multiple
\* of unit (no value of the model lies exactly half way)
RoundTo(x, unit) == ((x + unit \div 2) \div unit) * unit

\* bonus = 10.0 * confidence if matched else 0.0, in thousandths of a point
MatchBonus(m) == IF m.method # NoneStr THEN m.confidence ELSE 0

\* the dict appended to requirement_matches
MatchEntry(place, req, mode) ==
    LET m == MatchRequirement(place, req, mode)
    IN  [requirement |-> req.requirement,
         matched     |-> m.method # NoneStr,
         score_bonus |-> RoundTo(MatchBonus(m), 10),
         type        |-> req.category,
         confidence  |-> RoundTo(m.confidence, 100),
         method      |-> m.method]

\* a score that leaves the bonus of a matched requirement out
AddBonusNever(score, m) == score

\* if matched: score += bonus
AddBonus(score, m) == IF m.method # NoneStr THEN score + MatchBonus(m) ELSE score

RECURSIVE RequirementPoints(_, _, _, _)
RequirementPoints(score, place, reqs, mode) ==
    IF reqs = <<>> THEN score
    ELSE RequirementPoints(AddBonus(score, MatchRequirement(place, Head(reqs), mode)),
                           place, Tail(reqs), mode)

MaxPossibleScore(reqs) == 100000 + 10000 * Len(reqs)

\* match_percentage in tenths of a percent, round(.., 1)
MatchPercentage(entries) ==
    IF Len(entries) > 0
    THEN LET matched == Cardinality({k \in DOMAIN entries : entries[k].matched})
         IN  (2 * matched * 1000 + Len(entries)) \div (2 * Len(entries))
    ELSE 1000

\* the tuple (place, score, evidence, requirements_info) of one loop pass
ScorePlace(place, preset, filters, reqs, mode) ==
    LET entries == [k \in DOMAIN reqs |-> MatchEntry(place, reqs[k], mode)]
    IN  [place |-> place,
         score |-> RequirementPoints(BasePoints(place, preset, filters), place, reqs, mode),
         requirements_matched |-> entries,
         match_percentage |-> MatchPercentage(entries),
         max_possible_score |-> MaxPossibleScore(reqs)]

RECURSIVE InsertByScore(_, _)
\* insert x behind every element whose score is >= x.score
InsertByScore(sorted, x) ==
    IF sorted = <<>> THEN <<x>>
    ELSE IF Head(sorted).score >= x.score
         THEN <<Head(sorted)>> \o InsertByScore(Tail(sorted), x)
         ELSE <<x>> \o sorted

RECURSIVE SortByScoreDesc(_)
\* scored.sort(key=lambda x: x[1], reverse=True): stable, equal scores keep
\* their input order
SortByScoreDesc(scored) ==
    IF scored = <<>> THEN <<>>
    ELSE InsertByScore(SortByScoreDesc(SubSeq(scored, 1, Len(scored) - 1)),
                       scored[Len(scored)])

\* the whole of rank_places_async (mode "async") / rank_places (mode "sync")
RankPlaces(places, preset, filters, reqs, mode) ==
    SortByScoreDesc([k \in DOMAIN places |-> ScorePlace(places[k], preset, filters, reqs, mode)])

RankInit ==
    /\ rk_pc = "idle"
    /\ rk_mode = "async"
    /\ rk_places = <<>>
    /\ rk_preset = "balanced"
    /\ rk_filters = <<>>
    /\ rk_reqs = <<>>
    /\ rk_scored = <<>>
    /\ rk_calls = <<>>

\* the ranker is entered; "if not places: return []"
RankCall ==
    /\ rk_pc = "idle"
    /\ \E places \in RankInputs, preset \in Presets, filters \in PriceFilters,
          reqs \in RequirementLists, mode \in {"async", "sync"} :
        /\ rk_places' = places
        /\ rk_preset' = preset
        /\ rk_filters' = filters
        /\ rk_reqs' = reqs
        /\ rk_mode' = mode
        /\ rk_pc' = IF places = <<>> THEN "done" ELSE "scoring"
    /\ rk_scored' = <<>>
    /\ rk_calls' = <<>>
    /\ UNCHANGED rk_others

\* one pass of "for place in places"
ScoreStep ==
    /\ rk_pc = "scoring"
    /\ LET k == Len(rk_scored) + 1 IN
        /\ rk_scored' = Append(rk_scored,
                               ScorePlace(rk_places[k], rk_preset, rk_filters, rk_reqs, rk_mode))
        /\ rk_calls' = Append(rk_calls,
                              [r \in DOMAIN rk_reqs |->
                                  MethodsCalled(rk_places[k], rk_reqs[r], rk_mode)])
        /\ rk_pc' = IF k = Len(rk_places) THEN "sort" ELSE "scoring"
    /\ UNCHANGED <<rk_mode, rk_places, rk_preset, rk_filters, rk_reqs, rk_others>>

\* scored.sort(...); return scored
SortStep ==
    /\ rk_pc = "sort"
    /\ rk_scored' = SortByScoreDesc(rk_scored)
    /\ rk_pc' = "done"
    /\ UNCHANGED <<rk_mode, rk_places, rk_preset, rk_filters, rk_reqs, rk_calls, rk_others>>

RankNext == RankCall \/ ScoreStep \/ SortStep

\* --- properties of the ranker ---
Abs(x) == IF x >= 0 THEN x ELSE -x

\* all orderings of the elements of a sequence
SeqPermutations(s) ==
    {[k \in DOMAIN s |-> s[f[k]]] :
        f \in {g \in [DOMAIN s -> DOMAIN s] : \A a, b \in DOMAIN s : a # b => g[a] # g[b]}}

\* C2: every place the ranker has scored has score <= max_possible_score
\* (100 + 10 per requirement)
C2_ScoreWithinMax ==
    \A k \in DOMAIN rk_scored : rk_scored[k].score <= rk_scored[k].max_possible_score

\* (rating, review count, distance) of a is not behind that of b:
\* higher rating first, then higher review count, then smaller distance
TieOrderOk(a, b) ==
    \/ OrZero(a.rating) > OrZero(b.rating)
    \/ /\ OrZero(a.rating) = OrZero(b.rating)
       /\ \/ OrZero(a.user_rating_count) > OrZero(b.user_rating_count)
          \/ /\ OrZero(a.user_rating_count) = OrZero(b.user_rating_count)
             /\ a.distance_km <= b.distance_km

\* the fields the claimed order reads, in output order: places that agree on
\* all of them are interchangeable
OrderKeys(scored) ==
    [k \in DOMAIN scored |->
        [score |-> scored[k].score, rating |-> scored[k].place.rating,
         user_rating_count |-> scored[k].place.user_rating_count,
         distance_km |-> scored[k].place.distance_km]]

ScoreDescending ==
    \A k \in 1..(Len(rk_scored) - 1) : rk_scored[k].score >= rk_scored[k + 1].score

\* C3: the returned list is sorted by score descending, equal scores are
\* ordered by higher rating, then higher review count, then smaller distance,
\* and every permutation of the input gives the same output
C3_SortedWithTieBreak ==
    rk_pc = "done" =>
        /\ ScoreDescending
        /\ \A k \in 1..(Len(rk_scored) - 1) :
              rk_scored[k].score = rk_scored[k + 1].score
                  => TieOrderOk(rk_scored[k].place, rk_scored[k + 1].place)
        /\ \A q \in SeqPermutations(rk_places) :
              OrderKeys(RankPlaces(q, rk_preset, rk_filters, rk_reqs, rk_mode))
                  = OrderKeys(rk_scored)

\* 10 * confidence (ten-thousandths) in thousandths of a point
TenTimes(confidence) == confidence

SumBonus(entries) == SumSeq([k \in DOMAIN entries |-> entries[k].score_bonus])

MatchedCount(entries) == Cardinality({k \in DOMAIN entries : entries[k].matched})

\* one entry per requirement, in order, with matched iff a method is recorded
\* and nothing awarded when not matched
EntriesWellFormed(t) ==
    /\ Len(t.requirements_matched) = Len(rk_reqs)
    /\ \A k \in DOMAIN t.requirements_matched :
          LET e == t.requirements_matched[k] IN
            /\ e.requirement = rk_reqs[k].requirement
            /\ e.method \in {NoneStr, "structured_data", "keyword", "semantic", "review"}
            /\ e.matched <=> e.method # NoneStr
            /\ ~e.matched => e.score_bonus = 0 /\ e.confidence = 0

\* C4 as stated: the recorded score_bonus is exactly 10 * the recorded
\* confidence when matched, and the score is exactly base points plus the sum
\* of the recorded bonuses
C4_ExactBonus ==
    \A i \in DOMAIN rk_scored :
        LET t == rk_scored[i] IN
          /\ EntriesWellFormed(t)
          /\ \A k \in DOMAIN t.requirements_matched :
                t.requirements_matched[k].matched =>
                    t.requirements_matched[k].score_bonus
                        = TenTimes(t.requirements_matched[k].confidence)
          /\ t.score = BasePoints(t.place, rk_preset, rk_filters)
                          + SumBonus(t.requirements_matched)

\* C4 amended: one entry per requirement with at most one method; matched
\* iff a method is recorded; 0 bonus, 0 confidence and no method when not
\* matched; when matched, score_bonus and confidence are 10 * c and c each
\* rounded to two decimals, hence equal up to 0.05 and exactly equal for the
\* fixed confidences of the structured, keyword and review methods; the score
\* is base points plus the unrounded bonuses, within 0.005 per matched
\* requirement of the sum of the recorded bonuses
C4_RoundedBonus ==
    \A i \in DOMAIN rk_scored :
        LET t == rk_scored[i] IN
          /\ EntriesWellFormed(t)
          /\ \A k \in DOMAIN t.requirements_matched :
                LET e == t.requirements_matched[k] IN
                  e.matched =>
                    /\ e.score_bonus > 0
                    /\ Abs(e.score_bonus - TenTimes(e.confidence)) <= 50
                    /\ e.method # "semantic" => e.score_bonus = TenTimes(e.confidence)
          /\ Abs(t.score - BasePoints(t.place, rk_preset, rk_filters)
                    - SumBonus(t.requirements_matched))
                <= 5 * MatchedCount(t.requirements_matched)

\* a ranked place with one requirement matched semantically, whose rounded
\* bonus and confidence differ, and another requirement not matched
C4_Witness ==
    /\ rk_pc = "done"
    /\ \E i \in DOMAIN rk_scored :
        LET es == rk_scored[i].requirements_matched IN
          /\ \E k \in DOMAIN es :
                es[k].method = "semantic" /\ es[k].score_bonus # TenTimes(es[k].confidence)
          /\ \E k \in DOMAIN es : ~es[k].matched

\* a and b agree on review count, distance, price level and on what every
\* requirement matched
EqualButRating(a, b) ==
    /\ a.place.user_rating_count = b.place.user_rating_count
    /\ a.place.distance_km = b.place.distance_km
    /\ a.place.price_level = b.place.price_level
    /\ a.requirements_matched = b.requirements_matched

\* the rating as the claim orders it: a missing rating stands with rating 0
RatingOrLowest(place) == IF place.rating = NoneVal THEN 0 ELSE place.rating

\* C19: for every preset, of two ranked places equal on review count,
\* distance, price level and requirement matches, the one with the higher
\* rating (0 and a missing rating being the lowest) has a score greater than
\* or equal to the other's, and stands before it in the returned list when
\* its score is strictly greater
C19_RatingMonotone ==
    rk_pc = "done" =>
        \A i, j \in DOMAIN rk_scored :
            (/\ i # j
             /\ EqualButRating(rk_scored[i], rk_scored[j])
             /\ RatingOrLowest(rk_scored[i].place) >= RatingOrLowest(rk_scored[j].place))
                => /\ rk_scored[i].score >= rk_scored[j].score
                   /\ rk_scored[i].score > rk_scored[j].score => i < j

\* two places equal but for the rating, the unrated or zero-rated one first
\* in the input, a requirement matched on both, and the rated one returned
\* first with the greater score
C19_Witness ==
    /\ rk_pc = "done"
    /\ Len(rk_scored) = 2
    /\ EqualButRating(rk_scored[1], rk_scored[2])
    /\ rk_scored[1].place.id = 2
    /\ rk_scored[2].place.rating \in {NoneVal, 0}
    /\ rk_scored[1].score > rk_scored[2].score
    /\ \E k \in DOMAIN rk_scored[1].requirements_matched :
          rk_scored[1].requirements_matched[k].matched

\* the four methods in the order of the chain
MethodOrder == <<"structured_data", "keyword", "semantic", "review">>

\* the methods a ranker has: rank_places has the first two only
MethodsOf(mode) == IF mode = "async" THEN MethodOrder ELSE SubSeq(MethodOrder, 1, 2)

\* the method would match the pair when asked
MethodMatches(method, place, req) ==
    CASE method = "structured_data" -> check_structured_amenities(place, req) # NoneStr
      [] method = "keyword"         -> check_keyword_match(place, req) # NoneStr
      [] method = "semantic"        -> /\ place.semantic[req.requirement] # NoneVal
                                       /\ place.semantic[req.requirement] >= SemanticThreshold
      [] OTHER                      -> check_review_mentions(place, req) # NoneStr

\* 1.0, 0.8, the similarity value, 0.7 (ten-thousandths)
MethodConfidence(method, place, req) ==
    CASE method = "structured_data" -> 10000
      [] method = "keyword"         -> 8000
      [] method = "semantic"        -> place.semantic[req.requirement]
      [] OTHER                      -> 7000

\* the earliest method of the order that matches, NoneStr when none does
EarliestMatching(order, place, req) ==
    LET hits == {k \in DOMAIN order : MethodMatches(order[k], place, req)}
    IN  IF hits = {} THEN NoneStr
        ELSE order[CHOOSE k \in hits : \A m \in hits : k <= m]

\* the order up to and including the method, all of it for NoneStr
UpTo(order, method) ==
    IF method = NoneStr THEN order
    ELSE SubSeq(order, 1, CHOOSE k \in DOMAIN order : order[k] = method)

\* every recorded entry names the earliest matching method of the order with
\* its confidence (rounded to the unit), and the calls made are the order up
\* to that method
ChainFollows(exact) ==
    \A i \in DOMAIN rk_scored :
        LET t == rk_scored[i] IN
          \A k \in DOMAIN t.requirements_matched :
            LET e     == t.requirements_matched[k]
                order == IF exact THEN MethodOrder ELSE MethodsOf(rk_mode)
                first == EarliestMatching(order, t.place, rk_reqs[k])
                conf  == MethodConfidence(first, t.place, rk_reqs[k])
            IN  /\ e.method = first
                /\ first # NoneStr =>
                      e.confidence = IF exact THEN conf ELSE RoundTo(conf, 100)
                /\ first = NoneStr => e.confidence = 0 /\ ~e.matched
                /\ rk_calls[t.place.id][k] = UpTo(order, first)

\* C22 as stated: for each (place, requirement) pair the recorded method and
\* confidence are those of the earliest matching method in the order
\* structured, keyword, semantic, editorial (1.0, 0.8, the similarity value,
\* 0.7), and no method behind it is called
C22_EarliestOfFour == ChainFollows(TRUE)

\* C22 amended: rank_places_async asks structured, keyword, semantic,
\* editorial in that order and rank_places asks structured, keyword only;
\* the recorded method is the earliest matching one among those the ranker
\* asks, the recorded confidence is that method's confidence rounded to two
\* decimals, no method behind it is called, and with no match every method
\* of the ranker is called and the entry has no method and confidence 0
C22_EarliestOfTried == ChainFollows(FALSE)

\* an entry matched by the semantic method after the first two were called,
\* recorded with a rounded confidence, the editorial method not called
C22_Witness ==
    /\ rk_pc = "done"
    /\ rk_mode = "async"
    /\ \E i \in DOMAIN rk_scored :
        \E k \in DOMAIN rk_scored[i].requirements_matched :
            /\ rk_scored[i].requirements_matched[k].method = "semantic"
            /\ rk_scored[i].requirements_matched[k].confidence
                  # rk_scored[i].place.semantic[rk_reqs[k].requirement]
            /\ rk_calls[rk_scored[i].place.id][k] = <<"structured_data", "keyword", "semantic">>

\* the keywords of the requirement that occur in the editorial summary
EditorialHits(place, req) ==
    {req.keywords[j] : j \in DOMAIN req.keywords} \cap place.editorial_terms

MaxPrior == 3

\* Place fields read by the refinement: price_level (0..4 or None),
\* distance_km (tenths of a km or None), rating (tenths or None), score
\* (thousandths of a point), features (keys of the features dict)
StoredPlace(price, dist, rating, score, feats) ==
    [id |-> 0, price_level |-> price, distance_km |-> dist, rating |-> rating,
     score |-> score, features |-> feats]

StoredPlaces ==
    { StoredPlace(2, 5, 45, 90000, {"wifi"}),
      StoredPlace(0, 0, 40, 80000, {}),
      StoredPlace(4, 20, 35, 70000, {"wifi"}),
      StoredPlace(NoneVal, NoneVal, NoneVal, 60000, {}),
      StoredPlace(1, 12, 0, 80000, {}),
      StoredPlace(3, 8, 50, 50000, {"wifi"}),
      StoredPlace(1, 5, 45, 90000, {}),
      StoredPlace(2, 10, 40, 40000, {}) }

\* stored result sets: any order (an earlier refinement may have sorted by
\* distance or rating), ids distinct
PriorLists == { Renumber(ps) : ps \in SeqsUpTo(StoredPlaces, MaxPrior) }

\* FollowUpIntent fields read by the refinement
MkIntent(radius, pmin, pmax, minrating, feats, sortby) ==
    [adjust_radius |-> radius, price_min |-> pmin, price_max |-> pmax,
     min_rating |-> minrating, required_features |-> feats, sort_by |-> sortby]

SortBys == {NoneStr, "distance", "rating", "price"}

Intents ==
    UNION { { MkIntent(NoneVal, NoneVal, NoneVal, NoneVal, <<>>, sb),
              MkIntent(1000, NoneVal, NoneVal, NoneVal, <<>>, sb),
              MkIntent(NoneVal, 0, 2, NoneVal, <<>>, sb),
              MkIntent(NoneVal, 1, 2, NoneVal, <<>>, sb),
              MkIntent(NoneVal, 3, 4, NoneVal, <<>>, sb),
              MkIntent(NoneVal, 1, NoneVal, NoneVal, <<>>, sb),
              MkIntent(NoneVal, NoneVal, NoneVal, 40, <<>>, sb),
              MkIntent(NoneVal, NoneVal, NoneVal, NoneVal, <<"wifi">>, sb),
              MkIntent(1000, 1, 4, 40, <<"wifi">>, sb) } : sb \in SortBys }

TopKs == {1, 2}

\* Python truthiness of an Optional number: None and 0 are false
Truthy(v) == v # NoneVal /\ v # 0

\* v or default
OrElse(v, default) == IF Truthy(v) THEN v ELSE default

RECURSIVE SelectSeqBy(_, _)
\* [p for p in s if p.id in keep], in list order
SelectSeqBy(s, keep) ==
    IF s = <<>> THEN <<>>
    ELSE IF Head(s).id \in keep THEN <<Head(s)>> \o SelectSeqBy(Tail(s), keep)
         ELSE SelectSeqBy(Tail(s), keep)

\* not p.distance_km or (p.distance_km * 1000) <= intent.adjust_radius
RadiusKeeps(p, intent) ==
    \/ ~Truthy(p.distance_km)
    \/ p.distance_km * 100 <= intent.adjust_radius

\* p.price_level and intent.price_min <= p.price_level <= intent.price_max
PriceKeeps(p, intent) ==
    /\ Truthy(p.price_level)
    /\ intent.price_min <= p.price_level
    /\ p.price_level <= intent.price_max

\* p.rating and p.rating >= intent.min_rating
RatingKeeps(p, intent) ==
    /\ Truthy(p.rating)
    /\ p.rating >= intent.min_rating

\* the three comprehensions; required_features and open_now are not read
FilterPlaces(places, intent) ==
    LET byRadius == IF Truthy(intent.adjust_radius)
                    THEN SelectSeqBy(places, {p.id : p \in {q \in SeqRange(places) : RadiusKeeps(q, intent)}})
                    ELSE places
        byPrice  == IF intent.price_min # NoneVal /\ intent.price_max # NoneVal
                    THEN SelectSeqBy(byRadius, {p.id : p \in {q \in SeqRange(byRadius) : PriceKeeps(q, intent)}})
                    ELSE byRadius
        byRating == IF Truthy(intent.min_rating)
                    THEN SelectSeqBy(byPrice, {p.id : p \in {q \in SeqRange(byPrice) : RatingKeeps(q, intent)}})
                    ELSE byPrice
    IN byRating

\* the sort key, negated where the code sorts with reverse=True
FollowupSortKey(p, sort_by) ==
    IF sort_by = "distance" THEN OrElse(p.distance_km, 9990)
    ELSE IF sort_by = "rating" THEN 0 - OrElse(p.rating, 0)
    ELSE 0 - p.score

RECURSIVE InsertByKeyUnstable(_, _, _)
\* a sort that puts p before the elements of equal key
InsertByKeyUnstable(sorted, p, sort_by) ==
    IF sorted = <<>> THEN <<p>>
    ELSE IF FollowupSortKey(Head(sorted), sort_by) < FollowupSortKey(p, sort_by)
         THEN <<Head(sorted)>> \o InsertByKeyUnstable(Tail(sorted), p, sort_by)
         ELSE <<p>> \o sorted

RECURSIVE InsertByKey(_, _, _)
\* insert p after every element whose key is not larger (stable)
InsertByKey(sorted, p, sort_by) ==
    IF sorted = <<>> THEN <<p>>
    ELSE IF FollowupSortKey(Head(sorted), sort_by) <= FollowupSortKey(p, sort_by)
         THEN <<Head(sorted)>> \o InsertByKey(Tail(sorted), p, sort_by)
         ELSE <<p>> \o sorted

RECURSIVE SortPlaces(_, _)
\* list.sort: stable
SortPlaces(places, sort_by) ==
    IF places = <<>> THEN <<>>
    ELSE InsertByKey(SortPlaces(SubSeq(places, 1, Len(places) - 1), sort_by),
                     places[Len(places)], sort_by)

\* filtered_places[:request.top_k]
Truncate(places, top_k) == SubSeq(places, 1, Min(Len(places), top_k))

apply_followup_filters(places, intent, top_k) ==
    Truncate(SortPlaces(FilterPlaces(places, intent), intent.sort_by), top_k)

PlaceIds(places) == [k \in DOMAIN places |-> places[k].id]

FollowupInit ==
    /\ fu_pc = "idle"
    /\ fu_round = 1
    /\ fu_places = <<>>
    /\ fu_intent = MkIntent(NoneVal, NoneVal, NoneVal, NoneVal, <<>>, NoneStr)
    /\ fu_top_k = 1
    /\ fu_filtered = <<>>
    /\ fu_first = <<>>

\* apply_followup_filters(cached_places, intent, request)
FollowupCall ==
    /\ fu_pc = "idle"
    /\ \E ps \in PriorLists, it \in Intents, k \in TopKs :
          /\ fu_places' = ps
          /\ fu_intent' = it
          /\ fu_top_k' = k
          /\ fu_filtered' = ps
    /\ fu_pc' = "filter"
    /\ UNCHANGED <<fu_round, fu_first, fu_others>>

FollowupFilterStep ==
    /\ fu_pc = "filter"
    /\ fu_filtered' = FilterPlaces(fu_filtered, fu_intent)
    /\ fu_pc' = "sort"
    /\ UNCHANGED <<fu_round, fu_places, fu_intent, fu_top_k, fu_first, fu_others>>

FollowupSortStep ==
    /\ fu_pc = "sort"
    /\ fu_filtered' = SortPlaces(fu_filtered, fu_intent.sort_by)
    /\ fu_pc' = "truncate"
    /\ UNCHANGED <<fu_round, fu_places, fu_intent, fu_top_k, fu_first, fu_others>>

FollowupTruncateStep ==
    /\ fu_pc = "truncate"
    /\ fu_filtered' = Truncate(fu_filtered, fu_top_k)
    /\ fu_pc' = "done"
    /\ UNCHANGED <<fu_round, fu_places, fu_intent, fu_top_k, fu_first, fu_others>>

\* the same intent and top_k applied to the result set the first call
\* produced (the route stores the returned places under a new id)
FollowupAgain ==
    /\ fu_pc = "done"
    /\ fu_round = 1
    /\ fu_first' = fu_filtered
    /\ fu_round' = 2
    /\ fu_pc' = "filter"
    /\ UNCHANGED <<fu_places, fu_intent, fu_top_k, fu_filtered, fu_others>>

FollowupNext ==
    \/ FollowupCall
    \/ FollowupFilterStep
    \/ FollowupSortStep
    \/ FollowupTruncateStep
    \/ FollowupAgain

\* ---------------------------------------------------------------------
\* Properties of the follow-up refinement
\* ---------------------------------------------------------------------
\* the list the current call was given
FollowupArg == IF fu_round = 1 THEN fu_places ELSE fu_first

\* price_min <= price_level <= price_max, for a place that has a price level
PriceInRange(p, intent) ==
    /\ p.price_level # NoneVal
    /\ intent.price_min <= p.price_level
    /\ p.price_level <= intent.price_max

\* C5: when the intent carries price_min and price_max (and no other
\* filter or sort), the refinement returns exactly the prior places whose
\* price level lies in [price_min, price_max], bounds included, for every
\* level 0..4, in their prior score order (cut to top_k)
C5_PriceFilterInclusive ==
    ( /\ fu_pc = "done"
      /\ fu_intent.price_min # NoneVal /\ fu_intent.price_max # NoneVal
      /\ fu_intent.adjust_radius = NoneVal /\ fu_intent.min_rating = NoneVal
      /\ fu_intent.sort_by = NoneStr )
    => PlaceIds(fu_filtered)
          = PlaceIds(Truncate(SortPlaces(
                SelectSeqBy(FollowupArg,
                    {p.id : p \in {q \in SeqRange(FollowupArg) : PriceInRange(q, fu_intent)}}),
                NoneStr), fu_top_k))

\* C7: refining with the same intent is idempotent: the refinement of a
\* stored result set is the same id list each time it is computed, and
\* refining the returned list again with the same intent returns it unchanged
C7_Idempotent ==
    (fu_pc = "done" /\ fu_round = 2) =>
        /\ PlaceIds(fu_filtered) = PlaceIds(fu_first)
        /\ PlaceIds(apply_followup_filters(fu_places, fu_intent, fu_top_k))
              = PlaceIds(fu_first)

\* a second refinement finished on a first one that sorted three places by
\* distance, two of them at the same distance, and cut the list to top_k
C7_Witness ==
    /\ fu_pc = "done" /\ fu_round = 2
    /\ Len(fu_first) = 2 /\ fu_top_k = 2
    /\ Len(fu_places) = 3
    /\ Len(FilterPlaces(fu_places, fu_intent)) = 3
    /\ fu_intent.sort_by = "distance"
    /\ PlaceIds(fu_first) # PlaceIds(Truncate(fu_places, 2))
    /\ FollowupSortKey(fu_first[1], "distance") = FollowupSortKey(fu_first[2], "distance")

\* C8: with required_features in the intent, every returned place has each
\* required feature present and true
C8_RequiredFeatures ==
    (fu_pc = "done" /\ fu_intent.required_features # <<>>) =>
        \A k \in DOMAIN fu_filtered :
            \A f \in SeqRange(fu_intent.required_features) :
                f \in fu_filtered[k].features

\* the order the specification gives for each sort_by: score descending,
\* distance ascending, rating descending, price by price level (ascending
\* when dir = 1, descending when dir = -1); a missing value sorts last
SpecOrderKey(p, sort_by, dir) ==
    IF sort_by = "distance" THEN (IF p.distance_km = NoneVal THEN 9990 ELSE p.distance_km)
    ELSE IF sort_by = "rating" THEN 0 - OrZero(p.rating)
    ELSE IF sort_by = "price" THEN (IF p.price_level = NoneVal THEN 99 ELSE dir * p.price_level)
    ELSE 0 - p.score

\* out is the first top_k of "kept" in the order of sort_by
TopKInOrder(out, kept, sort_by, dir, top_k) ==
    /\ Len(out) = Min(Len(kept), top_k)
    /\ SeqRange(out) \subseteq SeqRange(kept)
    /\ \A k \in 1..(Len(out) - 1) :
          SpecOrderKey(out[k], sort_by, dir) <= SpecOrderKey(out[k + 1], sort_by, dir)
    /\ \A p \in SeqRange(out) : \A q \in SeqRange(kept) \ SeqRange(out) :
          SpecOrderKey(p, sort_by, dir) <= SpecOrderKey(q, sort_by, dir)

\* C9: the returned list is the places that pass the filters, sorted as
\* sort_by says (score descending, distance ascending, rating descending,
\* or by price level) and only then cut to the first top_k
C9_SortThenTruncate ==
    fu_pc = "done" =>
        LET kept == FilterPlaces(FollowupArg, fu_intent) IN
          \/ TopKInOrder(fu_filtered, kept, fu_intent.sort_by, 1, fu_top_k)
          \/ /\ fu_intent.sort_by = "price"
             /\ TopKInOrder(fu_filtered, kept, fu_intent.sort_by, -1, fu_top_k)

\* =====================================================================
\* POST /search: routes/search.py search, services/search_service.py,
\* cache/result_store.py
\* =====================================================================
\* requests answered in one behaviour
MaxRequests == 3

\* nested calls of SearchService.search one request may make before the
\* interpreter raises RecursionError
MaxRecursion == 3

\* a result_set_id no uuid4() call returned
UnknownId == 0

ConversationIds == {NoneStr, "c1"}

RouteTopKs == {1, 30}

\* what the providers hold for a query, ranked by score
Catalog(query) ==
    IF query = "coffee"
    THEN << StoredPlace(2, 5, 45, 90000, {"wifi"}),
            StoredPlace(0, 0, 40, 80000, {}),
            StoredPlace(NoneVal, 20, 35, 70000, {}) >>
    ELSE IF query = "tacos"
    THEN << StoredPlace(1, 12, 0, 80000, {}) >>
    ELSE << StoredPlace(3, 8, 50, 50000, {"wifi"}) >>

\* DiscoveryAgent.run: the ranked places cut to top_k, or no places when a
\* node raised (the exception is caught and state["places"] stays empty)
PipelineOutputs(query, top_k) == { Truncate(Catalog(query), top_k), <<>> }

\* Place(...): each place of a pipeline run gets a new uuid4 id
FreshPlaces(places, uuid) == [k \in DOMAIN places |-> [places[k] EXCEPT !.id = uuid + k - 1]]

\* SearchRequest fields read by the handlers
MkRequest(query, follow_up, result_set_id, conversation_id, price, top_k) ==
    [query |-> query, follow_up |-> follow_up, result_set_id |-> result_set_id,
     conversation_id |-> conversation_id, price |-> price, top_k |-> top_k]

NoRequest == MkRequest(NoneStr, FALSE, NoneVal, NoneStr, <<>>, 30)

\* the requests a client can send: it knows the ids the route returned
Requests ==
    { MkRequest("coffee", FALSE, NoneVal, c, <<>>, k) :
          c \in ConversationIds, k \in RouteTopKs }
    \cup { MkRequest("cheaper", TRUE, id, NoneStr, <<>>, k) :
          id \in DOMAIN result_sets \cup {UnknownId}, k \in RouteTopKs }
    \cup { MkRequest("cheaper", TRUE, NoneVal, "c1", f, 30) : f \in PriceFilters \ {<<>>} }
    \cup { MkRequest("with wifi", TRUE, NoneVal, "c1", <<>>, 30) }
    \cup { MkRequest("cheaper", TRUE, NoneVal, NoneStr, <<>>, 30) }

\* FollowUpIntent(is_new_search=False, new_query=None)
NoIntent ==
    [is_new_search |-> FALSE, new_query |-> NoneStr,
     filters |-> MkIntent(NoneVal, NoneVal, NoneVal, NoneVal, <<>>, NoneStr)]

\* what parse_followup can return: the default intent of its except branch,
\* a price range, a sort order, a new search, a new search without a query
RouteIntents ==
    { NoIntent,
      [is_new_search |-> TRUE, new_query |-> NoneStr,
       filters |-> MkIntent(NoneVal, NoneVal, NoneVal, NoneVal, <<>>, NoneStr)],
      [is_new_search |-> FALSE, new_query |-> NoneStr,
       filters |-> MkIntent(NoneVal, 1, 2, NoneVal, <<>>, NoneStr)],
      [is_new_search |-> FALSE, new_query |-> NoneStr,
       filters |-> MkIntent(NoneVal, NoneVal, NoneVal, NoneVal, <<>>, "distance")],
      [is_new_search |-> TRUE, new_query |-> "tacos",
       filters |-> MkIntent(NoneVal, NoneVal, NoneVal, NoneVal, <<>>, NoneStr)] }

\* d[key] = value
Put(d, key, value) == [x \in DOMAIN d \cup {key} |-> IF x = key THEN value ELSE d[x]]

\* del d[key]
Drop(d, key) == [x \in DOMAIN d \ {key} |-> d[x]]

\* for place in response.places: _place_cache[str(place.id)] = place.model_dump()
PutPlaces(cache, places) ==
    [x \in DOMAIN cache \cup SeqRange(PlaceIds(places)) |->
        IF x \in SeqRange(PlaceIds(places))
        THEN places[CHOOSE k \in DOMAIN places :
                        /\ places[k].id = x
                        /\ \A j \in DOMAIN places : places[j].id = x => j <= k]
        ELSE cache[x]]

\* _result_sets.get(result_set_id, [])
RoutePlaceIds(id) == IF id \in DOMAIN result_sets THEN result_sets[id] ELSE <<>>

\* cached_places: Place(**_place_cache[place_id]) for the ids still cached
CachedPlaces(id) ==
    LET ids == RoutePlaceIds(id) IN
      [k \in DOMAIN SelectSeq(ids, LAMBDA x : x \in DOMAIN place_cache) |->
          place_cache[SelectSeq(ids, LAMBDA x : x \in DOMAIN place_cache)[k]]]

\* is_followup and request.context.result_set_id, with places found for it
RouteFound(req) ==
    /\ req.follow_up
    /\ req.result_set_id # NoneVal
    /\ RoutePlaceIds(req.result_set_id) # <<>>
    /\ CachedPlaces(req.result_set_id) # <<>>

\* an intent never read as a new search
IsNewSearchNever(intent) == FALSE

\* intent.is_new_search and intent.new_query
IsNewSearch(intent) == intent.is_new_search /\ intent.new_query # NoneStr

\* a result_set_id taken from the request instead of from uuid4()
ReuseRequestId(req, uuid) == IF req.result_set_id # NoneVal THEN req.result_set_id ELSE uuid

\* new_result_set_id = str(uuid4())
NewResultSetId(req, uuid) == uuid

\* generate_cache_key: query, lat, lng, radius_m, ranking_preset, filters,
\* multi_entity; of these the requests vary query and filters
CacheKey(req) == <<req.query, req.price>>

\* settings.conversation_ttl_seconds and settings.cache_ttl_seconds
ConversationTtl == 900
CacheTtl == 1200

\* json.dumps(value, default=str): a UUID is written as its string form;
\* the string form of uuid n is coded as the number n + 1000
UuidStr(uuid) == uuid + 1000

\* the UUID pydantic reads back from the string form
UuidOf(s) == s - 1000

\* the JSON value of [p.model_dump() for p in places]
JsonPlaces(places) == [k \in DOMAIN places |-> [places[k] EXCEPT !.id = UuidStr(places[k].id)]]

\* [Place(**d) for d in dicts]
ParsePlaces(dicts) == [k \in DOMAIN dicts |-> [dicts[k] EXCEPT !.id = UuidOf(dicts[k].id)]]

\* a result set read from Redis: found is FALSE for the None result
NotFound == [found |-> FALSE, places |-> <<>>]

\* ResultStore.get_result_set
get_result_set(id) ==
    IF id \in DOMAIN redis_sets
    THEN [found |-> TRUE, places |-> redis_sets[id].places]
    ELSE NotFound

\* ResultStore.get_latest_result_set
get_latest_result_set(conversation_id) ==
    IF conversation_id \in DOMAIN redis_conv
    THEN get_result_set(redis_conv[conversation_id].latest_result_set_id)
    ELSE NotFound

\* previous_places of _handle_followup
PreviousPlaces(req) ==
    IF req.result_set_id # NoneVal THEN get_result_set(req.result_set_id)
    ELSE IF req.conversation_id # NoneStr THEN get_latest_result_set(req.conversation_id)
    ELSE NotFound

\* not previous_places: None or an empty list
NoPrevious(req) == ~PreviousPlaces(req).found \/ PreviousPlaces(req).places = <<>>

\* ResultStore.store_result_set: the result set key, and the conversation
\* key when a conversation_id is given
StoredSets(places, conversation_id, uuid) ==
    Put(redis_sets, uuid, [places |-> JsonPlaces(places), conversation_id |-> conversation_id,
                           ttl |-> ConversationTtl])

\* a conversation key that keeps the first result set linked to it
StoredConvFirst(conversation_id, uuid) ==
    IF conversation_id # NoneStr /\ conversation_id \notin DOMAIN redis_conv
    THEN Put(redis_conv, conversation_id,
             [latest_result_set_id |-> uuid, ttl |-> ConversationTtl])
    ELSE redis_conv

StoredConv(conversation_id, uuid) ==
    IF conversation_id # NoneStr
    THEN Put(redis_conv, conversation_id, [latest_result_set_id |-> uuid, ttl |-> ConversationTtl])
    ELSE redis_conv

\* must-haves _handle_followup reads off the query text
MustHaves(query) == IF query = "with wifi" THEN {"wifi"} ELSE {}

\* the price filter and the must-have check of _handle_followup
ServiceKeeps(p, req) ==
    /\ (req.price # <<>> /\ p.price_level # NoneVal)
          => (req.price[1] <= p.price_level /\ p.price_level <= req.price[2])
    /\ MustHaves(req.query) \subseteq p.features

ServiceFilter(places, req) ==
    SelectSeqBy(places, {p.id : p \in {q \in SeqRange(places) : ServiceKeeps(q, req)}})

\* request.context.follow_up left as it is
FollowUpKept(req) == req

\* request.context.follow_up = False
FollowUpCleared(req) == [req EXCEPT !.follow_up = FALSE]

NoResponse == [places |-> <<>>, source |-> NoneStr]

NoLast ==
    [status |-> 0, kind |-> NoneStr, source |-> NoneStr, result_set_id |-> NoneVal,
     place_ids |-> <<>>, source_id |-> NoneVal, source_age |-> NoneVal, fresh |-> FALSE,
     absent |-> FALSE, within_top_k |-> TRUE,
     entries |-> 0, query |-> NoneStr, is_new_search |-> FALSE, new_query |-> NoneStr]

RouteInit ==
    /\ place_cache = <<>>
    /\ result_sets = <<>>
    /\ redis_sets = <<>>
    /\ redis_conv = <<>>
    /\ redis_search = <<>>
    /\ next_uuid = 1
    /\ rt_age = <<>>
    /\ rt_pc = "idle"
    /\ rt_req = NoRequest
    /\ rt_resp = NoResponse
    /\ rt_site = NoneStr
    /\ rt_intent = NoIntent
    /\ rt_entries = 0
    /\ rt_absent = FALSE
    /\ rt_count = 0
    /\ rt_last = NoLast

\* the store block of the route and the return of the response
Answer(req, intent, places, kind, source, absent, entries) ==
    LET id == NewResultSetId(req, next_uuid) IN
      /\ place_cache' = PutPlaces(place_cache, places)
      /\ result_sets' = Put(result_sets, id, PlaceIds(places))
      /\ next_uuid' = next_uuid + 1
      /\ rt_age' = Put(rt_age, id, 0)
      /\ rt_last' = [status |-> 200, kind |-> kind, source |-> source,
                     result_set_id |-> id, place_ids |-> PlaceIds(places),
                     source_id |-> req.result_set_id,
                     source_age |-> IF req.result_set_id \in DOMAIN rt_age
                                    THEN rt_age[req.result_set_id] ELSE NoneVal,
                     fresh |-> id \notin (DOMAIN result_sets \cup DOMAIN redis_sets),
                     absent |-> absent, within_top_k |-> Len(places) <= req.top_k,
                     entries |-> entries, query |-> req.query,
                     is_new_search |-> intent.is_new_search,
                     new_query |-> intent.new_query]
      /\ rt_count' = rt_count + 1
      /\ rt_pc' = "idle"
      /\ rt_req' = NoRequest
      /\ rt_resp' = NoResponse
      /\ rt_site' = NoneStr
      /\ rt_intent' = NoIntent
      /\ rt_entries' = 0
      /\ rt_absent' = FALSE

\* follow-up on a stored result set, refined by apply_followup_filters
RouteRefine ==
    /\ rt_pc = "idle"
    /\ rt_count < MaxRequests
    /\ \E req \in Requests, intent \in RouteIntents :
          /\ RouteFound(req)
          /\ ~IsNewSearch(intent)
          /\ Answer(req, intent,
                    apply_followup_filters(CachedPlaces(req.result_set_id),
                                           intent.filters, req.top_k),
                    "refine", "route_refine", FALSE, 0)
    /\ UNCHANGED <<redis_sets, redis_conv, redis_search, rt_others>>

\* follow-up on a stored result set that parse_followup reads as a new search
RouteNewSearch ==
    /\ rt_pc = "idle"
    /\ rt_count < MaxRequests
    /\ \E req \in Requests, intent \in RouteIntents :
          /\ RouteFound(req)
          /\ IsNewSearch(intent)
          /\ rt_req' = [req EXCEPT !.query = intent.new_query]
          /\ rt_intent' = intent
    /\ rt_pc' = "service"
    /\ rt_site' = "followup"
    /\ rt_entries' = 0
    /\ rt_absent' = FALSE
    /\ UNCHANGED <<store_vars, rt_resp, rt_count, rt_last, rt_others>>

\* a search, or a follow-up for which the route finds no stored places
RouteNormal ==
    /\ rt_pc = "idle"
    /\ rt_count < MaxRequests
    /\ \E req \in Requests :
          /\ ~RouteFound(req)
          /\ rt_req' = req
          /\ rt_absent' = (req.follow_up /\ req.result_set_id # NoneVal)
    /\ rt_pc' = "service"
    /\ rt_site' = "normal"
    /\ rt_intent' = NoIntent
    /\ rt_entries' = 0
    /\ UNCHANGED <<store_vars, rt_resp, rt_count, rt_last, rt_others>>

\* SearchService.search on a request marked follow_up: calls _handle_followup;
\* past the recursion limit the call raises and the route answers 500
ServiceDispatch ==
    /\ rt_pc = "service"
    /\ rt_req.follow_up
    /\ IF rt_entries < MaxRecursion
       THEN /\ rt_pc' = "handle_followup"
            /\ rt_entries' = rt_entries + 1
            /\ UNCHANGED <<rt_req, rt_site, rt_intent, rt_absent, rt_count, rt_last>>
       ELSE /\ rt_last' = [NoLast EXCEPT !.status = 500, !.kind = "error",
                                         !.absent = rt_absent, !.entries = rt_entries]
            /\ rt_count' = rt_count + 1
            /\ rt_pc' = "idle"
            /\ rt_req' = NoRequest
            /\ rt_site' = NoneStr
            /\ rt_intent' = NoIntent
            /\ rt_entries' = 0
            /\ rt_absent' = FALSE
    /\ UNCHANGED <<store_vars, rt_resp, rt_others>>

\* SearchService.search: the response cached under the request's key
ServiceCacheHit ==
    /\ rt_pc = "service"
    /\ ~rt_req.follow_up
    /\ CacheKey(rt_req) \in DOMAIN redis_search
    /\ rt_resp' = [places |-> ParsePlaces(redis_search[CacheKey(rt_req)].places),
                   source |-> "cache"]
    /\ rt_pc' = "store"
    /\ UNCHANGED <<store_vars, rt_req, rt_site, rt_intent, rt_entries, rt_absent, rt_count, rt_last, rt_others>>

\* SearchService.search: agent run, store_result_set, cache.set
ServicePipeline ==
    /\ rt_pc = "service"
    /\ ~rt_req.follow_up
    /\ CacheKey(rt_req) \notin DOMAIN redis_search
    /\ \E out \in PipelineOutputs(rt_req.query, rt_req.top_k) :
          LET places == FreshPlaces(out, next_uuid)
              id == next_uuid + Len(out)
          IN /\ redis_sets' = StoredSets(places, rt_req.conversation_id, id)
             /\ redis_conv' = StoredConv(rt_req.conversation_id, id)
             /\ redis_search' = Put(redis_search, CacheKey(rt_req),
                                    [places |-> JsonPlaces(places), result_set_id |-> id,
                                     ttl |-> CacheTtl])
             /\ next_uuid' = id + 1
             /\ rt_resp' = [places |-> places, source |-> "pipeline"]
    /\ rt_pc' = "store"
    /\ UNCHANGED <<place_cache, result_sets, rt_age, rt_req, rt_site, rt_intent, rt_entries,
                   rt_absent, rt_count, rt_last, rt_others>>

\* _handle_followup without previous places: falls back to search
HandleFollowupFallback ==
    /\ rt_pc = "handle_followup"
    /\ NoPrevious(rt_req)
    /\ rt_req' = FollowUpCleared(rt_req)
    /\ rt_pc' = "service"
    /\ UNCHANGED <<store_vars, rt_resp, rt_site, rt_intent, rt_entries, rt_absent, rt_count, rt_last, rt_others>>

\* _handle_followup on the previous places of the Redis result store
HandleFollowupRefine ==
    /\ rt_pc = "handle_followup"
    /\ ~NoPrevious(rt_req)
    /\ LET filtered == ServiceFilter(ParsePlaces(PreviousPlaces(rt_req).places), rt_req) IN
          /\ redis_sets' = StoredSets(filtered, rt_req.conversation_id, next_uuid)
          /\ redis_conv' = StoredConv(rt_req.conversation_id, next_uuid)
          /\ next_uuid' = next_uuid + 1
          /\ rt_resp' = [places |-> Truncate(filtered, rt_req.top_k),
                         source |-> "service_refine"]
    /\ rt_pc' = "store"
    /\ UNCHANGED <<place_cache, result_sets, rt_age, redis_search, rt_req, rt_site, rt_intent,
                   rt_entries, rt_absent, rt_count, rt_last, rt_others>>

\* the route stores the places of the service's response and returns it
RouteStore ==
    /\ rt_pc = "store"
    /\ Answer(rt_req, rt_intent, rt_resp.places,
              IF rt_site = "followup" THEN "new_search" ELSE "search",
              rt_resp.source, rt_absent, rt_entries)
    /\ UNCHANGED <<redis_sets, redis_conv, redis_search, rt_others>>

\* the result_set: key set first (ids are handed out in time order)
OldestSet(d) == CHOOSE k \in DOMAIN d : \A j \in DOMAIN d : k <= j

\* the search: key set first (each response holds the id stored with it)
OldestSearch(d) ==
    CHOOSE k \in DOMAIN d : \A j \in DOMAIN d : d[k].result_set_id <= d[j].result_set_id

\* Redis drops the result_set: key whose TTL runs out first (all have the
\* same TTL, so the one set first) and the conversation: key set with it
ExpireSession ==
    /\ rt_pc = "idle"
    /\ redis_sets # <<>>
    /\ LET id == OldestSet(redis_sets) IN
          /\ redis_sets' = Drop(redis_sets, id)
          /\ redis_conv' = [c \in {x \in DOMAIN redis_conv :
                                        redis_conv[x].latest_result_set_id # id} |-> redis_conv[c]]
    /\ UNCHANGED <<place_cache, result_sets, rt_age, redis_search, next_uuid, rt_pc, rt_req, rt_resp,
                   rt_site, rt_intent, rt_entries, rt_absent, rt_count, rt_last, rt_others>>

\* Redis drops the search: key whose TTL runs out first
ExpireSearch ==
    /\ rt_pc = "idle"
    /\ redis_search # <<>>
    /\ redis_search' = Drop(redis_search, OldestSearch(redis_search))
    /\ UNCHANGED <<place_cache, result_sets, rt_age, redis_sets, redis_conv, next_uuid, rt_pc,
                   rt_req, rt_resp, rt_site, rt_intent, rt_entries, rt_absent, rt_count, rt_last, rt_others>>

\* seconds between two readings of the clock
TickSeconds == 450

\* Redis after TickSeconds more seconds: a key whose time to live ran out is gone
Elapse(d) == [k \in {x \in DOMAIN d : d[x].ttl > TickSeconds} |->
                 [d[k] EXCEPT !.ttl = @ - TickSeconds]]

\* time passes between two requests; nothing in the route reads the clock
Tick ==
    /\ rt_pc = "idle"
    /\ \/ \E id \in DOMAIN rt_age : rt_age[id] < ConversationTtl
       \/ redis_search # <<>>
    /\ rt_age' = [id \in DOMAIN rt_age |-> Min(rt_age[id] + TickSeconds, ConversationTtl)]
    /\ redis_sets' = Elapse(redis_sets)
    /\ redis_conv' = Elapse(redis_conv)
    /\ redis_search' = Elapse(redis_search)
    /\ UNCHANGED <<place_cache, result_sets, next_uuid, rt_pc, rt_req, rt_resp, rt_site,
                   rt_intent, rt_entries, rt_absent, rt_count, rt_last, rt_others>>

\* seconds since the newest result set holding the place was stored
PlaceAge(place_id) ==
    LET holders == {id \in DOMAIN result_sets : place_id \in SeqRange(result_sets[id])} IN
      IF holders = {} THEN NoneVal
      ELSE rt_age[CHOOSE id \in holders : \A other \in holders : rt_age[id] <= rt_age[other]]

NoLookup == [place_id |-> NoneVal, status |-> NoneVal, age |-> NoneVal]

PlaceLookupInit == pd_last = NoLookup

\* get_place_details: 404 unless the id is a key of _place_cache
PlaceLookup ==
    /\ rt_pc = "idle"
    /\ \E place_id \in DOMAIN place_cache \cup {UnknownId} :
          pd_last' = [place_id |-> place_id,
                      status |-> IF place_id \in DOMAIN place_cache THEN 200 ELSE 404,
                      age |-> PlaceAge(place_id)]
    /\ UNCHANGED <<rt_vars, pd_others>>

\* ---------------------------------------------------------------------
\* ResultStore called directly (cache/result_store.py)
\* ---------------------------------------------------------------------
MaxStores == 2

\* the place lists handed to store_result_set: model_dump() of two places
StorePlaceLists ==
    LET a == [StoredPlace(2, 5, 45, 90000, {"wifi"}) EXCEPT !.id = 101]
        b == [StoredPlace(0, 0, 40, 80000, {}) EXCEPT !.id = 102]
    IN { <<>>, <<a, b>> }

\* RedisCache.set: the key is written, or setex raised and False is returned
RedisSet(d, written, ok) == IF ok THEN written ELSE d

\* the newest call of store_result_set for the conversation, NoneVal without one
LatestStored(conversation_id) ==
    LET mine == {id \in DOMAIN st_written : st_written[id].conversation_id = conversation_id} IN
      IF mine = {} THEN NoneVal ELSE CHOOSE id \in mine : \A other \in mine : other <= id

NoRead == [op |-> NoneStr, key |-> NoneVal, conversation_id |-> NoneStr, up |-> TRUE,
           found |-> FALSE, places |-> <<>>, expect |-> NoneVal, age |-> NoneVal]

StoreInit ==
    /\ st_written = <<>>
    /\ st_read = NoRead

\* store_result_set(places, conversation_id): the outcome of each cache.set
\* is dropped and the new id is returned either way
StoreResultSet ==
    /\ rt_pc = "idle"
    /\ next_uuid <= MaxStores
    /\ \E places \in StorePlaceLists, conversation_id \in ConversationIds,
          set_ok \in BOOLEAN, link_ok \in BOOLEAN :
          /\ conversation_id = NoneStr => link_ok
          /\ redis_sets' = RedisSet(redis_sets,
                                    StoredSets(places, conversation_id, next_uuid), set_ok)
          /\ redis_conv' = RedisSet(redis_conv, StoredConv(conversation_id, next_uuid), link_ok)
          /\ st_written' = Put(st_written, next_uuid,
                               [places |-> places, conversation_id |-> conversation_id,
                                set_ok |-> set_ok, link_ok |-> link_ok])
    /\ rt_age' = Put(rt_age, next_uuid, 0)
    /\ next_uuid' = next_uuid + 1
    /\ UNCHANGED <<place_cache, result_sets, redis_search, rt_pc, rt_req, rt_resp, rt_site,
                   rt_intent, rt_entries, rt_absent, rt_count, rt_last, pd_vars, st_read,
                   st_others>>

\* RedisCache.get: the parsed value, or None when the key is missing or the
\* call raised
RedisGet(result, up) == IF up THEN result ELSE NotFound

\* get_result_set(result_set_id)
GetResultSet ==
    /\ rt_pc = "idle"
    /\ \E id \in DOMAIN st_written \cup {UnknownId}, up \in BOOLEAN :
          st_read' = [op |-> "get_result_set", key |-> id, conversation_id |-> NoneStr,
                      up |-> up,
                      found |-> RedisGet(get_result_set(id), up).found,
                      places |-> RedisGet(get_result_set(id), up).places,
                      expect |-> IF id \in DOMAIN st_written THEN id ELSE NoneVal,
                      age |-> IF id \in DOMAIN st_written THEN rt_age[id] ELSE NoneVal]
    /\ UNCHANGED <<rt_vars, st_written, st_others>>

\* get_latest_result_set(conversation_id)
GetLatestResultSet ==
    /\ rt_pc = "idle"
    /\ \E conversation_id \in ConversationIds \ {NoneStr}, up \in BOOLEAN :
          LET latest == LatestStored(conversation_id) IN
            st_read' = [op |-> "get_latest_result_set", key |-> NoneVal,
                        conversation_id |-> conversation_id, up |-> up,
                        found |-> RedisGet(get_latest_result_set(conversation_id), up).found,
                        places |-> RedisGet(get_latest_result_set(conversation_id), up).places,
                        expect |-> latest,
                        age |-> IF latest = NoneVal THEN NoneVal ELSE rt_age[latest]]
    /\ UNCHANGED <<rt_vars, st_written, st_others>>

StoreNext ==
    \/ StoreResultSet
    \/ GetResultSet
    \/ GetLatestResultSet
    \/ Tick

\* ---------------------------------------------------------------------
\* Provider searches (providers/google.py, providers/yelp.py)
\* ---------------------------------------------------------------------
\* requests the upstream script answers
MaxUpstream == 3

\* settings.max_results_per_provider and Yelp's page size ("limit = 50")
MaxResultsPerProvider == 60
YelpPageLimit == 50

\* an upstream answer: a 200 with so many records on offer, a 4xx, a 5xx, or
\* no answer at all (httpx.RequestError: connect error, timeout)
Upstream200 == {[status |-> 200, available |-> n] : n \in {0, 10, 50}}
UpstreamAnswers ==
    Upstream200 \cup {[status |-> c, available |-> 0] : c \in {404, 503, NoneVal}}

UpstreamScripts == [1..MaxUpstream -> UpstreamAnswers]

\* response.raise_for_status() raises, or the request itself raised
RequestRaises(answer) == answer.status = NoneVal \/ answer.status >= 400

ProviderInit ==
    /\ pv_pc = "idle"
    /\ pv_provider = NoneStr
    /\ pv_key = FALSE
    /\ pv_script = <<>>
    /\ pv_requests = 0
    /\ pv_count = 0
    /\ pv_result = NoneVal

\* search_google_places / search_yelp_places is entered; without an API key
\* it returns [] at once
ProviderCall ==
    /\ pv_pc = "idle"
    /\ \E provider \in {"google", "yelp"}, key \in BOOLEAN, script \in UpstreamScripts :
          /\ pv_provider' = provider
          /\ pv_key' = key
          /\ pv_script' = script
          /\ pv_pc' = IF key THEN "request" ELSE "done"
          /\ pv_result' = IF key THEN NoneVal ELSE 0
    /\ pv_requests' = 0
    /\ pv_count' = 0
    /\ UNCHANGED pv_others

\* one HTTP request of search_google_places: _text_search / _nearby_search,
\* every exception ends the call with []
GoogleRequest ==
    /\ pv_pc = "request"
    /\ pv_provider = "google"
    /\ LET answer == pv_script[pv_requests + 1]
           places == Min(answer.available, MaxResultsPerProvider)
       IN /\ pv_requests' = pv_requests + 1
          /\ pv_count' = IF RequestRaises(answer) THEN pv_count ELSE places
          /\ pv_result' = IF RequestRaises(answer) THEN 0 ELSE places
    /\ pv_pc' = "done"
    /\ UNCHANGED <<pv_provider, pv_key, pv_script, pv_others>>

\* one pass of "while len(places) < max_results" of search_yelp_places; every
\* exception ends the call with [], whatever the pages before it held
YelpRequest ==
    /\ pv_pc = "request"
    /\ pv_provider = "yelp"
    /\ LET answer == pv_script[pv_requests + 1]
           asked == Min(YelpPageLimit, MaxResultsPerProvider - pv_count)
           businesses == Min(answer.available, asked)
           count == pv_count + businesses
           again == /\ businesses # 0
                    /\ businesses >= YelpPageLimit
                    /\ count < MaxResultsPerProvider
                    /\ pv_requests + 1 < MaxUpstream
       IN /\ pv_requests' = pv_requests + 1
          /\ IF RequestRaises(answer)
             THEN pv_count' = pv_count /\ pv_result' = 0 /\ pv_pc' = "done"
             ELSE /\ pv_count' = count
                  /\ pv_pc' = IF again THEN "request" ELSE "done"
                  /\ pv_result' = IF again THEN NoneVal
                                  ELSE Min(count, MaxResultsPerProvider)
    /\ UNCHANGED <<pv_provider, pv_key, pv_script, pv_others>>

\* the caller takes the list; the next search starts
ProviderReturn ==
    /\ pv_pc = "done"
    /\ pv_pc' = "idle"
    /\ pv_provider' = NoneStr
    /\ pv_key' = FALSE
    /\ pv_script' = <<>>
    /\ pv_requests' = 0
    /\ pv_count' = 0
    /\ pv_result' = NoneVal
    /\ UNCHANGED pv_others

ProviderNext ==
    \/ ProviderCall
    \/ GoogleRequest
    \/ YelpRequest
    \/ ProviderReturn

\* ---------------------------------------------------------------------
\* Multi-entity constraints (agent/nodes.py constraint_join_node)
\* ---------------------------------------------------------------------
MaxFused == 3

\* settings.default_near_distance_m
DefaultNearDistanceM == 500

\* request.top_k of the runs of the join
JoinTopK == 30

\* extract_features_from_text(place.name): the features with an alias in the
\* name; one occurrence scores 0.3 + 0.2 = 0.5, which check_must_haves accepts
NameFeatures(name) == IF name = "Playground Park" THEN {"playground"} ELSE {}

\* check_must_haves(features, must_haves)[0]
check_must_haves(features, must_haves) == SeqRange(must_haves) \subseteq features

\* fused places: name and position decide the join, the rating decides the
\* order the ranker gives them; provider ids are unique
JoinPlaces ==
    {[id |-> pos + rating + (IF name = "Corner Cafe" THEN 0 ELSE 100),
      provider |-> "google", name |-> name, pos |-> pos,
      user_rating_count |-> 100, rating |-> rating, distance_km |-> 10, price_level |-> 2,
      raw_true |-> {}, name_terms |-> {}, editorial_terms |-> {},
      semantic |-> NoMatchData.semantic] :
        name \in {"Corner Cafe", "Playground Park"}, pos \in {0, 400, 1000},
        rating \in {40, 45}}

\* fused results hold one record per cluster: no record twice
JoinInputs ==
    {ps \in SeqsUpTo(JoinPlaces, MaxFused) : \A i, j \in DOMAIN ps : ps[i] = ps[j] => i = j}

Entity(kind, must_haves) == [kind |-> kind, must_haves |-> must_haves]

\* relation["left"], relation["right"] index the entities from 0; distance_m
\* is NoneVal when the key is missing
Relation(left, right, distance_m) == [left |-> left, right |-> right, distance_m |-> distance_m]

SimpleIntent(query) ==
    [type |-> "simple", query |-> query, category |-> NoneStr, entities |-> <<>>,
     relations |-> <<>>]

MultiEntityIntent(entities, relations) ==
    [type |-> "multi_entity", query |-> NoneStr, category |-> NoneStr, entities |-> entities,
     relations |-> relations]

JoinIntents ==
    LET cafe == Entity("cafe", <<>>)
        park == Entity("park", <<"playground">>)
        shop == Entity("shop", <<>>)
    IN  { SimpleIntent("coffee"),
          MultiEntityIntent(<<cafe>>, <<>>),
          MultiEntityIntent(<<cafe, park>>, <<Relation(0, 1, NoneVal)>>),
          MultiEntityIntent(<<cafe, park>>, <<Relation(0, 1, 1000)>>),
          MultiEntityIntent(<<cafe, park, shop>>, <<Relation(0, 1, NoneVal)>>),
          MultiEntityIntent(<<cafe, park, shop>>, <<Relation(0, 1, 1000)>>),
          MultiEntityIntent(<<cafe, park, shop>>,
                            <<Relation(0, 1, 1000), Relation(1, 2, NoneVal)>>),
          MultiEntityIntent(<<cafe, park, shop>>, <<Relation(1, 2, NoneVal)>>),
          MultiEntityIntent(<<cafe, shop, park>>, <<Relation(0, 1, NoneVal)>>),
          MultiEntityIntent(<<cafe, park, park>>,
                            <<Relation(0, 1, NoneVal), Relation(0, 2, 1000)>>),
          MultiEntityIntent(<<park, cafe, park>>, <<Relation(0, 1, NoneVal)>>) }

\* the anchors that pass "if anchor_entity.get("must_haves")"
FilteredAnchors(fused, anchor_entity) ==
    SelectSeq(fused, LAMBDA place :
        anchor_entity.must_haves # <<>>
            => check_must_haves(NameFeatures(place.name), anchor_entity.must_haves))

\* partner_entities[partner_idx - 1] of a list Python indexes from 0: index
\* -1 is the last element
PartnerEntity(partner_entities, partner_idx) ==
    partner_entities[IF partner_idx = 0 THEN Len(partner_entities) ELSE partner_idx]

\* the entries one relation appends to partners_found for one anchor, in
\* the order of fused_results
PartnersFound(fused, anchor, relation, partner_entities) ==
    IF relation.left # 0 THEN <<>>
    ELSE IF relation.right >= Len(partner_entities) THEN <<>>
    ELSE LET partner_entity == PartnerEntity(partner_entities, relation.right)
             max_distance_m == IF relation.distance_m = NoneVal
                               THEN DefaultNearDistanceM ELSE relation.distance_m
             found == SelectSeq(fused, LAMBDA potential_partner :
                 /\ potential_partner # anchor
                 /\ calculate_distance_m(anchor, potential_partner) <= max_distance_m
                 /\ partner_entity.must_haves # <<>>
                 /\ check_must_haves(NameFeatures(potential_partner.name),
                                     partner_entity.must_haves))
         IN  [k \in DOMAIN found |->
                 [kind |-> partner_entity.kind, name |-> found[k].name,
                  distance_m |-> calculate_distance_m(anchor, found[k]),
                  pos |-> found[k].pos]]

\* partners_found of one anchor after "for relation in relations"
AnchorPartners(fused, anchor, intent) ==
    FlattenSeq([k \in DOMAIN intent.relations |->
                   PartnersFound(fused, anchor, intent.relations[k], Tail(intent.entities))])

\* len(relations)
RelationsCounted(relations) == Len(relations)

\* len(partners_found) >= len(relations)
AnchorKept(fused, anchor, intent) ==
    Len(AnchorPartners(fused, anchor, intent)) >= RelationsCounted(intent.relations)

\* the node does nothing: no multi_entity intent, one entity, or no relation
JoinSkipped(intent) ==
    \/ intent.type # "multi_entity"
    \/ Len(intent.entities) <= 1
    \/ intent.relations = <<>>

\* state["fused_results"] after constraint_join_node
constraint_join_node(fused, intent) ==
    IF JoinSkipped(intent) THEN fused
    ELSE SelectSeq(FilteredAnchors(fused, intent.entities[1]),
                   LAMBDA anchor : AnchorKept(fused, anchor, intent))

\* state["debug"]["matched_partners"] after constraint_join_node: the
\* partners of the i-th kept anchor under key i; no key when nothing is kept
\* or the node does nothing
matched_partners(fused, intent) ==
    IF JoinSkipped(intent) THEN <<>>
    ELSE LET kept == constraint_join_node(fused, intent)
         IN  [i \in DOMAIN kept |-> AnchorPartners(fused, kept[i], intent)]

\* format_answer_node: the Place of the i-th scored result gets
\* matched_partners_map[i]
format_answer_node(scored, matched_partners_map, top_k) ==
    LET top == Truncate(scored, top_k) IN
      [i \in DOMAIN top |->
          [id |-> top[i].place.id, name |-> top[i].place.name, pos |-> top[i].place.pos,
           score |-> top[i].score,
           matched_partners |-> IF i \in DOMAIN matched_partners_map
                                THEN matched_partners_map[i] ELSE <<>>]]

JoinInit ==
    /\ cj_pc = "idle"
    /\ cj_fused = <<>>
    /\ cj_intent = SimpleIntent("coffee")
    /\ cj_result = <<>>
    /\ cj_partners = <<>>
    /\ cj_scored = <<>>
    /\ cj_places = <<>>

\* constraint_join_node runs on the fused results of a request
JoinCall ==
    /\ cj_pc = "idle"
    /\ \E fused \in JoinInputs, intent \in JoinIntents :
          /\ cj_fused' = fused
          /\ cj_intent' = intent
          /\ cj_result' = constraint_join_node(fused, intent)
          /\ cj_partners' = matched_partners(fused, intent)
    /\ cj_pc' = "score_rank"
    /\ UNCHANGED <<cj_scored, cj_places, cj_others>>

\* score_rank_node on what the join left (no requirements, preset balanced)
JoinScoreRank ==
    /\ cj_pc = "score_rank"
    /\ cj_scored' = IF cj_result = <<>> THEN <<>>
                    ELSE RankPlaces(cj_result, "balanced", <<>>, <<>>, "async")
    /\ cj_pc' = "format_answer"
    /\ UNCHANGED <<cj_fused, cj_intent, cj_result, cj_partners, cj_places, cj_others>>

\* format_answer_node
JoinFormatAnswer ==
    /\ cj_pc = "format_answer"
    /\ cj_places' = format_answer_node(cj_scored, cj_partners, JoinTopK)
    /\ cj_pc' = "done"
    /\ UNCHANGED <<cj_fused, cj_intent, cj_result, cj_partners, cj_scored, cj_others>>

\* the run returns; the next request comes
JoinReturn ==
    /\ cj_pc = "done"
    /\ cj_pc' = "idle"
    /\ cj_fused' = <<>>
    /\ cj_intent' = SimpleIntent("coffee")
    /\ cj_result' = <<>>
    /\ cj_partners' = <<>>
    /\ cj_scored' = <<>>
    /\ cj_places' = <<>>
    /\ UNCHANGED cj_others

JoinNext == JoinCall \/ JoinScoreRank \/ JoinFormatAnswer \/ JoinReturn

\* ---------------------------------------------------------------------
\* The agent pipeline (agent/graph.py DiscoveryAgent.run, agent/nodes.py)
\* ---------------------------------------------------------------------
RECURSIVE UnionPairs(_, _, _, _)
\* the double loop of cluster_duplicates from the pair (i, j) on
UnionPairs(parent, places, i, j) ==
    IF i > Len(places) THEN parent
    ELSE IF j > Len(places) THEN UnionPairs(parent, places, i + 1, i + 2)
    ELSE UnionPairs(IF are_duplicates(places[i], places[j])
                    THEN Union(parent, i, j) ELSE parent,
                    places, i, j + 1)

RECURSIVE GroupFrom(_, _, _)
\* "for i in range(n): root = find(i); clusters[root].append(places[i])"
GroupFrom(clusters, parent, i) ==
    IF i > Len(parent) THEN clusters
    ELSE GroupFrom(GroupAdd(clusters, FindRoot(parent, i), i), FindCompress(parent, i), i + 1)

\* cluster_duplicates: the clusters as lists of input positions
cluster_duplicates(places) ==
    LET parent == UnionPairs([k \in 1..Len(places) |-> k], places, 1, 2)
        clusters == GroupFrom(<<>>, parent, 1)
    IN  [k \in DOMAIN clusters |-> clusters[k].members]

\* deduplicate_places(places)[0]
deduplicate_places(places) ==
    IF places = <<>> THEN <<>>
    ELSE LET clusters == cluster_duplicates(places) IN
           [k \in DOMAIN clusters |->
               select_representative([m \in DOMAIN clusters[k] |-> places[clusters[k][m]]])]

AgentQuery == "coffee with wifi"
AgentTopK == 2

\* a ProviderPlace with the fields the nodes read
AgentPlace(id, provider, name, pos, count, rating, raw_true, similarity) ==
    [id |-> id, provider |-> provider, name |-> name, pos |-> pos,
     user_rating_count |-> count, rating |-> rating, distance_km |-> 10,
     price_level |-> 2, raw_true |-> raw_true, name_terms |-> {},
     editorial_terms |-> {},
     semantic |-> [r \in {"WiFi", "Quiet"} |-> IF r = "WiFi" THEN similarity ELSE NoneVal]]

\* what each upstream holds for the query
GoogleCatalog ==
    << AgentPlace(1, "google", "Blue Bottle Coffee, Inc", 0, 3000, 45, {}, 8000) >>
YelpCatalog ==
    << AgentPlace(2, "yelp", "Blue Bottle Coffee, Inc", 100, 100, 40, {}, 8000),
       AgentPlace(3, "yelp", "Starbucks", 200, 100, 45, {"wifi"}, NoneVal) >>

\* llm_adapter.invoke + json.loads in parse_intent_node: the call raises
\* ("completion"), the text is no JSON ("json"), or an intent is read
LlmIntents ==
    {[error |-> x, value |-> SimpleIntent(NoneStr)] : x \in {"completion", "json"}}
        \cup {[error |-> NoneStr, value |-> v] :
                  v \in {[SimpleIntent("coffee") EXCEPT !.category = "cafe"],
                         MultiEntityIntent(<<Entity("cafe", <<>>),
                                             Entity("park", <<"playground">>),
                                             Entity("shop", <<>>)>>,
                                           <<Relation(0, 1, NoneVal)>>)}}

Plan(providers, query, category) ==
    [providers |-> providers, query |-> query, category |-> category]

\* llm_adapter.invoke + json.loads in plan_node
LlmPlans ==
    {[error |-> x, value |-> Plan(<<>>, NoneStr, NoneStr)] : x \in {"completion", "json"}}
        \cup {[error |-> NoneStr, value |-> Plan(ps, "coffee", NoneStr)] :
                  ps \in {<<"google", "yelp">>, <<"google">>, <<"yelp">>, <<>>}}

\* a provider search: places, [] after a failure it swallowed, or an exception
ProviderOutcomes == {"places", "empty", "raises"}

AgentEnvs ==
    [agent_mode : {"full", "deterministic"}, llm_intent : LlmIntents, llm_plan : LlmPlans,
     google : ProviderOutcomes, yelp : ProviderOutcomes,
     extractor : {"ok", "fails"}, embedder : {"up", "down"},
     rank_async : {"ok", "raises"}]

\* parse_intent_node: state["parsed_intent"] without the fallback of the
\* except branch
parse_intent_unguarded(query, agent_mode, llm) ==
    IF agent_mode = "deterministic" THEN SimpleIntent(query) ELSE llm.value

\* parse_intent_node: state["parsed_intent"]
parse_intent_node(query, agent_mode, llm) ==
    IF agent_mode = "deterministic" THEN SimpleIntent(query)
    ELSE IF llm.error # NoneStr THEN SimpleIntent(query)
    ELSE llm.value

\* plan_node: state["plan"]
plan_node(query, intent, agent_mode, llm) ==
    IF agent_mode = "deterministic"
    THEN Plan(<<"google", "yelp">>, intent.query, intent.category)
    ELSE IF llm.error # NoneStr THEN Plan(<<"google", "yelp">>, query, NoneStr)
    ELSE llm.value

\* SearchTool.call_google / call_yelp: an exception of the search becomes []
SearchToolCall(outcome, catalog) == IF outcome = "places" THEN catalog ELSE <<>>

\* the list "results" of asyncio.gather(*tasks): one entry per planned
\* provider, google first
GatherResults(plan, env) ==
    (IF "google" \in SeqRange(plan.providers)
     THEN << SearchToolCall(env.google, GoogleCatalog) >> ELSE <<>>)
    \o (IF "yelp" \in SeqRange(plan.providers)
        THEN << SearchToolCall(env.yelp, YelpCatalog) >> ELSE <<>>)

\* get_embedding returns [] when the embeddings call fails: no text is similar
WithEmbedder(places, embedder) ==
    [k \in DOMAIN places |->
        IF embedder = "up" THEN places[k]
        ELSE [places[k] EXCEPT !.semantic = [r \in DOMAIN @ |-> NoneVal]]]

\* extract_requirements(query)["normalized_requirements"]
ExtractRequirements(query, extractor) == IF extractor = "ok" THEN <<ReqWifi>> ELSE <<>>

NoValidation == [valid |-> FALSE, expand_search |-> FALSE, issues |-> <<>>]

\* validate_node: state["debug"]["validation"]
validate_node(scored) ==
    [valid |-> Len(scored) > 0,
     expand_search |-> Len(scored) = 0,
     issues |-> IF Len(scored) = 0 THEN <<"No results found">>
                ELSE IF Len(scored) < 5 THEN <<"Few results found">> ELSE <<>>]

NoAgentState ==
    [query |-> NoneStr, parsed_intent |-> SimpleIntent(NoneStr),
     plan |-> Plan(<<>>, NoneStr, NoneStr), google_results |-> <<>>, yelp_results |-> <<>>,
     fused_results |-> <<>>, requirements |-> <<>>, rank_mode |-> NoneStr,
     scored_results |-> <<>>, validation |-> NoValidation, places |-> <<>>,
     timings |-> {}, errors |-> <<>>]

NoAgentReturn == [returned |-> FALSE, places |-> <<>>, debug |-> <<>>]

\* between two runs: deterministic mode, nothing fails
NoAgentEnv ==
    [agent_mode |-> "deterministic",
     llm_intent |-> [error |-> NoneStr, value |-> [SimpleIntent("coffee") EXCEPT !.category = "cafe"]],
     llm_plan |-> [error |-> NoneStr, value |-> Plan(<<"google", "yelp">>, "coffee", NoneStr)],
     google |-> "places", yelp |-> "places", extractor |-> "ok", embedder |-> "up",
     rank_async |-> "ok"]

AgentInit ==
    /\ ag_pc = "idle"
    /\ ag_env = NoAgentEnv
    /\ ag_state = NoAgentState
    /\ ag_return = NoAgentReturn

\* DiscoveryAgent.run is entered
AgentRun ==
    /\ ag_pc = "idle"
    /\ ag_env' \in AgentEnvs
    /\ ag_state' = [NoAgentState EXCEPT !.query = AgentQuery]
    /\ ag_return' = NoAgentReturn
    /\ ag_pc' = "parse_intent"
    /\ UNCHANGED ag_others

ParseIntentNode ==
    /\ ag_pc = "parse_intent"
    /\ ag_state' = [ag_state EXCEPT
            !.parsed_intent = parse_intent_node(ag_state.query, ag_env.agent_mode,
                                                ag_env.llm_intent),
            !.timings = @ \cup {"parse_intent"}]
    /\ ag_pc' = "plan"
    /\ UNCHANGED <<ag_env, ag_return, ag_others>>

PlanNode ==
    /\ ag_pc = "plan"
    /\ ag_state' = [ag_state EXCEPT
            !.plan = plan_node(ag_state.query, ag_state.parsed_intent, ag_env.agent_mode,
                               ag_env.llm_plan),
            !.timings = @ \cup {"plan"}]
    /\ ag_pc' = "call_providers"
    /\ UNCHANGED <<ag_env, ag_return, ag_others>>

\* call_providers_node: results[0] and results[1] of the gathered tasks
CallProvidersNode ==
    /\ ag_pc = "call_providers"
    /\ LET results == GatherResults(ag_state.plan, ag_env) IN
          ag_state' = [ag_state EXCEPT
              !.google_results = IF Len(results) > 0 THEN results[1] ELSE <<>>,
              !.yelp_results = IF Len(results) > 1 THEN results[2] ELSE <<>>,
              !.timings = @ \cup {"provider_calls"}]
    /\ ag_pc' = "fuse_dedupe"
    /\ UNCHANGED <<ag_env, ag_return, ag_others>>

FuseDedupeNode ==
    /\ ag_pc = "fuse_dedupe"
    /\ LET all_places == ag_state.google_results \o ag_state.yelp_results IN
          ag_state' = [ag_state EXCEPT
              !.fused_results = deduplicate_places(all_places),
              !.timings = IF all_places = <<>> THEN @ ELSE @ \cup {"dedupe"}]
    /\ ag_pc' = "constraint_join"
    /\ UNCHANGED <<ag_env, ag_return, ag_others>>

ConstraintJoinNode ==
    /\ ag_pc = "constraint_join"
    /\ ag_state' = [ag_state EXCEPT
            !.fused_results = constraint_join_node(@, ag_state.parsed_intent),
            !.timings = IF /\ ag_state.parsed_intent.type = "multi_entity"
                           /\ Len(ag_state.parsed_intent.entities) > 1
                           /\ ag_state.parsed_intent.relations # <<>>
                        THEN @ \cup {"constraint_join"} ELSE @]
    /\ ag_pc' = "score_rank"
    /\ UNCHANGED <<ag_env, ag_return, ag_others>>

\* score_rank_node: requirement extraction, then rank_places_async, and
\* rank_places when that raised
ScoreRankNode ==
    /\ ag_pc = "score_rank"
    /\ IF ag_state.fused_results = <<>>
       THEN ag_state' = [ag_state EXCEPT !.scored_results = <<>>]
       ELSE LET requirements == ExtractRequirements(ag_state.query, ag_env.extractor)
                mode == IF ag_env.rank_async = "ok" THEN "async" ELSE "sync"
            IN  ag_state' = [ag_state EXCEPT
                    !.requirements = requirements,
                    !.rank_mode = mode,
                    !.scored_results =
                        RankPlaces(WithEmbedder(ag_state.fused_results, ag_env.embedder),
                                   "balanced", <<>>, requirements, mode),
                    !.timings = @ \cup {"score_rank"}]
    /\ ag_pc' = "validate"
    /\ UNCHANGED <<ag_env, ag_return, ag_others>>

ValidateNode ==
    /\ ag_pc = "validate"
    /\ ag_state' = [ag_state EXCEPT
            !.validation = validate_node(ag_state.scored_results),
            !.timings = @ \cup {"validate"}]
    /\ ag_pc' = "format_answer"
    /\ UNCHANGED <<ag_env, ag_return, ag_others>>

\* format_answer_node: one Place per scored result, cut to top_k
FormatAnswerNode ==
    /\ ag_pc = "format_answer"
    /\ LET top == Truncate(ag_state.scored_results, AgentTopK) IN
          ag_state' = [ag_state EXCEPT
              !.places = [k \in DOMAIN top |->
                             [id |-> top[k].place.id, score |-> top[k].score,
                              requirements_matched |-> top[k].requirements_matched]],
              !.timings = @ \cup {"format_answer"}]
    /\ ag_pc' = "return"
    /\ UNCHANGED <<ag_env, ag_return, ag_others>>

\* the SearchDebug that run builds from state["debug"], and its return
AgentReturn ==
    /\ ag_pc = "return"
    /\ ag_return' = [returned |-> TRUE, places |-> ag_state.places,
                     debug |-> [timings |-> ag_state.timings, cache_hit |-> FALSE,
                                counts_before_after |->
                                    [google |-> Len(ag_state.google_results),
                                     yelp |-> Len(ag_state.yelp_results),
                                     fused |-> Len(ag_state.fused_results)],
                                agent_mode |-> ag_env.agent_mode]]
    /\ ag_pc' = "done"
    /\ UNCHANGED <<ag_env, ag_state, ag_others>>

\* the caller has the result; the next run starts from scratch
AgentIdle ==
    /\ ag_pc = "done"
    /\ ag_pc' = "idle"
    /\ ag_env' = NoAgentEnv
    /\ ag_state' = NoAgentState
    /\ ag_return' = NoAgentReturn
    /\ UNCHANGED ag_others

AgentNext ==
    \/ AgentRun
    \/ ParseIntentNode
    \/ PlanNode
    \/ CallProvidersNode
    \/ FuseDedupeNode
    \/ ConstraintJoinNode
    \/ ScoreRankNode
    \/ ValidateNode
    \/ FormatAnswerNode
    \/ AgentReturn
    \/ AgentIdle

\* ---------------------------------------------------------------------
\* SearchService.search around DiscoveryAgent.run: one request, sent again
\* ---------------------------------------------------------------------
\* the node functions inside the try block of run, in call order
TryNodes ==
    <<"parse_intent", "plan", "call_providers", "fuse_dedupe", "constraint_join",
      "score_rank", "validate", "format_answer">>

\* the "<node>_ms" key a node writes to state["debug"] before it returns
NodeTiming(node) ==
    CASE node = "call_providers" -> "provider_calls"
      [] node = "fuse_dedupe"    -> "dedupe"
      [] OTHER                   -> node

\* cache.get of a search: key that is not in Redis; "expired" tells a key
\* whose time to live ran out from one never written
NoCached ==
    [present |-> FALSE, expired |-> FALSE, places |-> <<>>, cache_hit |-> FALSE,
     result_set_id |-> NoneVal]

\* SearchResponse(places=places, debug=debug, result_set_id=result_set_id)
Response(places, cache_hit, result_set_id) ==
    [places |-> places, cache_hit |-> cache_hit, result_set_id |-> result_set_id]

\* cache.set(cache_key, response.model_dump()): the JSON value under the key
CachedResponse(resp) ==
    [present |-> TRUE, expired |-> FALSE, places |-> JsonPlaces(resp.places),
     cache_hit |-> resp.cache_hit, result_set_id |-> resp.result_set_id]

\* a cached response that counts only when it holds places
CacheAnswersWithPlaces(cached) == cached.present /\ cached.places # <<>>

\* if cached_response: the dict read back from Redis is truthy, whatever
\* its "places" list holds
CacheAnswers(cached) == cached.present

ServiceInit ==
    /\ sv_req = 0
    /\ sv_cache = NoCached
    /\ sv_sets = <<>>
    /\ sv_runs = 0
    /\ sv_live = FALSE
    /\ sv_resp = <<>>

\* search: the request comes for the first time, nothing is cached, run starts
SearchCall ==
    /\ ag_pc = "idle"
    /\ sv_req = 0
    /\ ~CacheAnswers(sv_cache)
    /\ sv_req' = 1
    /\ sv_runs' = sv_runs + 1
    /\ ag_env' \in AgentEnvs
    /\ ag_state' = [NoAgentState EXCEPT !.query = AgentQuery]
    /\ ag_return' = NoAgentReturn
    /\ ag_pc' = "parse_intent"
    /\ UNCHANGED <<sv_cache, sv_sets, sv_live, sv_resp, sv_others>>

\* a node function raises: inside the try block the except branch appends
\* str(e) to state["errors"] and run goes on to build its return value;
\* "state" is still what the last completed node returned
NodeRaises ==
    /\ ag_pc \in SeqRange(TryNodes)
    /\ ag_state' = [ag_state EXCEPT !.errors = Append(@, ag_pc)]
    /\ ag_pc' = "return"
    /\ UNCHANGED <<ag_env, ag_return, ag_others>>

\* search after run returned: store_result_set, the response, cache.set
SearchStore ==
    /\ ag_pc = "done"
    /\ sv_req \in {1, 2}
    /\ LET resp == Response(ag_return.places, ag_return.debug.cache_hit, Len(sv_sets) + 1) IN
          /\ sv_sets' = Append(sv_sets, JsonPlaces(ag_return.places))
          /\ sv_cache' = CachedResponse(resp)
          /\ sv_resp' = Append(sv_resp, resp)
    /\ ag_pc' = "stored"
    /\ UNCHANGED <<ag_env, ag_state, ag_return, sv_req, sv_runs, sv_live, sv_others>>

\* settings.cache_ttl_seconds pass: Redis drops the search: key
CacheExpires ==
    /\ ag_pc = "stored"
    /\ sv_req = 1
    /\ sv_cache.present
    /\ sv_cache' = [NoCached EXCEPT !.expired = TRUE]
    /\ UNCHANGED <<ag_vars, sv_req, sv_sets, sv_runs, sv_live, sv_resp, sv_others>>

\* search: the same request again, answered with the cached response
SearchCached ==
    /\ ag_pc = "stored"
    /\ sv_req = 1
    /\ CacheAnswers(sv_cache)
    /\ sv_req' = 2
    /\ sv_live' = ~sv_cache.expired
    /\ sv_resp' = Append(sv_resp, Response(ParsePlaces(sv_cache.places), TRUE,
                                           sv_cache.result_set_id))
    /\ ag_pc' = "answered"
    /\ UNCHANGED <<ag_env, ag_state, ag_return, sv_cache, sv_sets, sv_runs, sv_others>>

\* search: the same request again with no cached response: run is called
\* again (the upstreams behave as at the first sending)
SearchUncached ==
    /\ ag_pc = "stored"
    /\ sv_req = 1
    /\ ~CacheAnswers(sv_cache)
    /\ sv_req' = 2
    /\ sv_live' = ~sv_cache.expired
    /\ sv_runs' = sv_runs + 1
    /\ ag_state' = [NoAgentState EXCEPT !.query = AgentQuery]
    /\ ag_return' = NoAgentReturn
    /\ ag_pc' = "parse_intent"
    /\ UNCHANGED <<ag_env, sv_cache, sv_sets, sv_resp, sv_others>>

\* both sendings are answered; Redis is emptied before the next request
SearchIdle ==
    /\ \/ ag_pc = "answered"
       \/ ag_pc = "stored" /\ sv_req = 2
    /\ ag_pc' = "idle"
    /\ ag_env' = NoAgentEnv
    /\ ag_state' = NoAgentState
    /\ ag_return' = NoAgentReturn
    /\ sv_req' = 0
    /\ sv_cache' = NoCached
    /\ sv_sets' = <<>>
    /\ sv_runs' = 0
    /\ sv_live' = FALSE
    /\ sv_resp' = <<>>
    /\ UNCHANGED sv_others

ServiceNext ==
    \/ SearchCall
    \/ ParseIntentNode
    \/ PlanNode
    \/ CallProvidersNode
    \/ FuseDedupeNode
    \/ ConstraintJoinNode
    \/ ScoreRankNode
    \/ ValidateNode
    \/ FormatAnswerNode
    \/ NodeRaises
    \/ AgentReturn
    \/ SearchStore
    \/ CacheExpires
    \/ SearchCached
    \/ SearchUncached
    \/ SearchIdle

\* requests, place lookups and the passing of time
SessionNext ==
    \/ RouteRefine
    \/ RouteNewSearch
    \/ RouteNormal
    \/ ServiceDispatch
    \/ ServiceCacheHit
    \/ ServicePipeline
    \/ HandleFollowupFallback
    \/ HandleFollowupRefine
    \/ RouteStore
    \/ Tick
    \/ PlaceLookup

RouteNext ==
    \/ RouteRefine
    \/ RouteNewSearch
    \/ RouteNormal
    \/ ServiceDispatch
    \/ ServiceCacheHit
    \/ ServicePipeline
    \/ HandleFollowupFallback
    \/ HandleFollowupRefine
    \/ RouteStore
    \/ ExpireSession
    \/ ExpireSearch

\* ---------------------------------------------------------------------
\* Properties of the route and its stores
\* ---------------------------------------------------------------------
\* the places read through a result_set_id of the route
ReadResultSet(cache, sets, id) == [k \in DOMAIN sets[id] |-> cache[sets[id][k]]]

\* one answered request more
Answered == rt_count' = rt_count + 1 /\ rt_last'.status = 200

C6_Step ==
    /\ \A id \in DOMAIN result_sets :
          /\ id \in DOMAIN result_sets'
          /\ ReadResultSet(place_cache', result_sets', id)
                = ReadResultSet(place_cache, result_sets, id)
    /\ \A id \in DOMAIN redis_sets :
          id \in DOMAIN redis_sets' =>
              ParsePlaces(redis_sets'[id].places) = ParsePlaces(redis_sets[id].places)
    /\ Answered =>
          /\ rt_last'.result_set_id \notin
                (DOMAIN result_sets \cup DOMAIN redis_sets \cup DOMAIN place_cache)
          /\ rt_last'.result_set_id \in DOMAIN result_sets'

\* C6: every answer, a follow-up refinement included, is stored under a
\* result_set_id no earlier answer has, and no step changes what a result
\* set stored earlier reads as: the same places, with the same field values,
\* in the same order (in Redis: for as long as the key has not expired)
C6_PriorSetsUnchanged == [][C6_Step]_vars

\* a search answered with three places in score order, then a follow-up that
\* re-sorted them, then a follow-up on that answer that kept one place: all
\* three result sets are stored
C6_Witness ==
    /\ rt_pc = "idle" /\ rt_count = 3
    /\ rt_last.kind = "refine"
    /\ rt_last.source_id \in DOMAIN result_sets
    /\ Len(result_sets[rt_last.result_set_id]) = 1
    /\ Len(result_sets[rt_last.source_id]) = 3
    /\ \E id \in DOMAIN result_sets :
          /\ id # rt_last.source_id
          /\ Len(result_sets[id]) = 3
          /\ SeqRange(result_sets[id]) = SeqRange(result_sets[rt_last.source_id])
          /\ result_sets[id] # result_sets[rt_last.source_id]
          /\ \A k \in 1..2 : ReadResultSet(place_cache, result_sets, id)[k].score
                                >= ReadResultSet(place_cache, result_sets, id)[k + 1].score

\* the steps of the handlers between the arrival of a request and its answer
RequestStep ==
    \/ ServiceDispatch
    \/ ServiceCacheHit
    \/ ServicePipeline
    \/ HandleFollowupFallback
    \/ HandleFollowupRefine
    \/ RouteStore

\* a follow-up naming a result set the route has no places for is answered
\* normally, its places stored under a new id, after one pass through
\* _handle_followup; while in flight it can always take its next step
AbsentAnswered(sources) ==
    /\ rt_last.absent =>
          /\ rt_last.status = 200
          /\ rt_last.kind = "search"
          /\ rt_last.source \in sources
          /\ rt_last.entries = 1
          /\ rt_last.fresh
          /\ rt_last.result_set_id \in DOMAIN result_sets
          /\ result_sets[rt_last.result_set_id] = rt_last.place_ids
    /\ (rt_pc # "idle" /\ rt_absent) =>
          /\ rt_entries <= 1
          /\ ENABLED RequestStep

\* C10: a follow-up whose result_set_id is absent from the session store is
\* answered by a fresh search through the provider pipeline, with a normal
\* response and a newly stored result set, without error and without
\* entering the follow-up path again and again
C10_AbsentFreshPipeline == AbsentAnswered({"pipeline"})

\* C10 amended: such a follow-up is answered by the normal search path of
\* SearchService.search, which is the cached response of an earlier search
\* with the same query and filters when there is one and a run of the
\* provider pipeline otherwise; either way with a normal response and a newly
\* stored result set, without error, entering _handle_followup once
C10_AbsentFallsBackToSearch == AbsentAnswered({"pipeline", "cache"})

\* a follow-up on a never-issued id, answered with places from the pipeline
C10_Witness ==
    /\ rt_pc = "idle"
    /\ rt_last.absent
    /\ rt_last.source_id = UnknownId
    /\ rt_last.status = 200
    /\ rt_last.source = "pipeline"
    /\ rt_last.place_ids # <<>>

\* the last answer was to a follow-up on a result set the route holds
OnStoredSet == rt_last.kind \in {"refine", "new_search"}

\* the answer is stored under the id the response carries
AnswerStored ==
    /\ rt_last.status = 200
    /\ rt_last.result_set_id \in DOMAIN result_sets
    /\ result_sets[rt_last.result_set_id] = rt_last.place_ids

\* the answer holds only places of the result set the follow-up named
FromStoredPlaces ==
    /\ rt_last.source = "route_refine"
    /\ rt_last.source_id \in DOMAIN result_sets
    /\ SeqRange(rt_last.place_ids) \subseteq SeqRange(result_sets[rt_last.source_id])

\* C11: a follow-up on a stored result set with is_new_search false is
\* answered from the stored places only, without a provider call; with
\* is_new_search true the query becomes new_query and the provider pipeline
\* runs again; either way the answer is stored and its id returned
C11_RefineOrRerun ==
    OnStoredSet =>
        /\ AnswerStored
        /\ ~rt_last.is_new_search => FromStoredPlaces
        /\ rt_last.is_new_search =>
              /\ rt_last.source = "pipeline"
              /\ rt_last.query = rt_last.new_query

\* C11 amended: the follow-up is a new search only when is_new_search is
\* true and new_query is given; then the query becomes new_query and the
\* request goes through SearchService.search, answered by the cached
\* response for that query when there is one and by a pipeline run
\* otherwise; every other follow-up on a stored result set is answered from
\* the stored places only; either way the answer is stored and its id
\* returned
C11_RefineOrSearchPath ==
    OnStoredSet =>
        /\ AnswerStored
        /\ ~(rt_last.is_new_search /\ rt_last.new_query # NoneStr) => FromStoredPlaces
        /\ (rt_last.is_new_search /\ rt_last.new_query # NoneStr) =>
              /\ rt_last.source \in {"pipeline", "cache"}
              /\ rt_last.query = rt_last.new_query
              /\ rt_last.entries = 1

\* a follow-up read as a new search, answered with places from a pipeline
\* run for the new query
C11_Witness ==
    /\ rt_pc = "idle"
    /\ rt_last.kind = "new_search"
    /\ rt_last.is_new_search
    /\ rt_last.query = "tacos"
    /\ rt_last.source = "pipeline"
    /\ rt_last.place_ids # <<>>
    /\ rt_last.source_id \in DOMAIN result_sets
    /\ SeqRange(rt_last.place_ids) \cap SeqRange(result_sets[rt_last.source_id]) = {}

\* C12: a stored result set is readable only within its time to live
\* (900 seconds): once that time has passed the result set and its places
\* are gone, no follow-up is answered from it, and no lookup of one of its
\* places is answered with 200.
C12_ReadableWithinTtl ==
    /\ \A id \in DOMAIN result_sets : rt_age[id] < ConversationTtl
    /\ rt_last.source = "route_refine" => rt_last.source_age < ConversationTtl
    /\ pd_last.status = 200 => pd_last.age < ConversationTtl

\* a place looked up, and a follow-up refined, 900 seconds after the store
C12_StaleRead ==
    /\ pd_last.status = 200
    /\ pd_last.age >= ConversationTtl
    /\ rt_last.source = "route_refine"
    /\ rt_last.source_age >= ConversationTtl

\* what the last read is expected to return: the places of the call of
\* store_result_set named by st_read.expect
Expected == st_written[st_read.expect]

ReadInForce ==
    /\ st_read.expect # NoneVal
    /\ st_read.up
    /\ st_read.age < ConversationTtl
    /\ Expected.set_ok
    /\ st_read.op = "get_latest_result_set" => Expected.link_ok

ProviderFailed(provider) ==
    /\ provider \in SeqRange(ag_state.plan.providers)
    /\ ag_env[provider] # "places"

\* every provider of the plan failed
AllProvidersFailed ==
    /\ ag_state.plan.providers # <<>>
    /\ \A provider \in SeqRange(ag_state.plan.providers) : ProviderFailed(provider)

\* the places the run returned come from the catalog of the provider
FromCatalog(places, catalog) ==
    \A k \in DOMAIN places : places[k].id \in {catalog[j].id : j \in DOMAIN catalog}

C14_ValidationDropped ==
    /\ ag_pc = "done"
    /\ AllProvidersFailed
    /\ ag_return.places = <<>>
    /\ ag_state.validation.expand_search
    /\ "validation" \notin DOMAIN ag_return.debug

\* the methods that need no embedding
SyncMethods == {"structured_data", "keyword", NoneStr}

\* the order, scores and requirement matches of a ranked list
Outcome(scored) ==
    [k \in DOMAIN scored |->
        [id |-> scored[k].place.id, score |-> scored[k].score,
         requirements_matched |-> scored[k].requirements_matched]]

\* the run reached the ranker with places to rank
Ranked == ag_pc = "done" /\ ag_state.rank_mode # NoneStr

MaxRetries == 3

\* a 5xx answer or a transport error: what the spec retries
Retryable(answer) == answer.status = NoneVal \/ answer.status >= 500

RECURSIVE LeadingRetryable(_)
\* how many answers at the head of the script are retryable
LeadingRetryable(script) ==
    IF script = <<>> \/ ~Retryable(Head(script)) THEN 0
    ELSE 1 + LeadingRetryable(Tail(script))

\* C15: a provider search whose upstream call answers 5xx or hits a
\* transport error is retried, up to 3 attempts in total, before the search
\* returns an empty list; a 4xx is not retried.
C15_RetriedBeforeEmpty ==
    (pv_pc = "done" /\ pv_key) =>
        /\ LeadingRetryable(pv_script) >= 1
              => pv_requests >= Min(LeadingRetryable(pv_script) + 1, MaxRetries)
        /\ (pv_script[1].status # NoneVal /\ pv_script[1].status \in 400..499)
              => pv_requests = 1 /\ pv_result = 0

\* a search that gave up after one 503 although the second answer was a 200
C15_GaveUpAfterOne ==
    /\ pv_pc = "done"
    /\ pv_script[1].status = 503
    /\ pv_script[2].status = 200
    /\ pv_script[2].available > 0
    /\ pv_requests = 1
    /\ pv_result = 0

\* the join applies: a multi-entity intent with partners and relations
JoinApplies ==
    /\ cj_pc = "done"
    /\ cj_intent.type = "multi_entity"
    /\ Len(cj_intent.entities) > 1
    /\ cj_intent.relations # <<>>

\* some other fused place satisfies the must_haves of the relation's partner
\* entity (entities[relation.right], counted from 0) within the relation's
\* distance, 500 m when it names none
HasPartner(anchor, relation) ==
    LET partner == cj_intent.entities[relation.right + 1]
        d == IF relation.distance_m = NoneVal THEN DefaultNearDistanceM ELSE relation.distance_m
    IN  \E k \in DOMAIN cj_fused :
            /\ cj_fused[k] # anchor
            /\ calculate_distance_m(anchor, cj_fused[k]) <= d
            /\ check_must_haves(NameFeatures(cj_fused[k].name), partner.must_haves)

\* C17: in a multi-entity search a candidate anchor is kept if and only if
\* every relation has at least one other fused place that satisfies the
\* partner's must_haves and lies within the relation's distance (500 m by
\* default); an anchor with a relation that has no such partner is dropped.
C17_KeptIffPartnered ==
    JoinApplies =>
        \A anchor \in SeqRange(FilteredAnchors(cj_fused, cj_intent.entities[1])) :
            (anchor \in SeqRange(cj_result))
                <=> \A k \in DOMAIN cj_intent.relations :
                        HasPartner(anchor, cj_intent.relations[k])

\* the cafe next to a playground, searched with the relation (0, 1) of a
\* two-entity intent, is dropped
C17_PartneredAnchorDropped ==
    /\ JoinApplies
    /\ Len(cj_intent.entities) = 2
    /\ cj_intent.relations = <<Relation(0, 1, NoneVal)>>
    /\ \E anchor \in SeqRange(cj_fused) :
          /\ anchor.name = "Corner Cafe"
          /\ HasPartner(anchor, cj_intent.relations[1])
          /\ anchor \notin SeqRange(cj_result)

\* the intent without the relations whose left index is not 0
WithoutForeignRelations(intent) ==
    [intent EXCEPT !.relations = SelectSeq(@, LAMBDA relation : relation.left = 0)]

HasForeignRelation(intent) ==
    \E k \in DOMAIN intent.relations : intent.relations[k].left # 0

\* C25: a relation whose left index is not 0 is silently ignored: the kept
\* anchors and their recorded partners are those of the intent with that
\* relation removed
C25_ForeignRelationIgnored ==
    (cj_pc = "done" /\ cj_intent.type = "multi_entity" /\ HasForeignRelation(cj_intent)) =>
        /\ cj_result = constraint_join_node(cj_fused, WithoutForeignRelations(cj_intent))
        /\ cj_partners = matched_partners(cj_fused, WithoutForeignRelations(cj_intent))

\* an anchor with a partner for the only relation that starts at the anchor
\* is kept without the relation (1, 2) and dropped with it
C25_ForeignRelationDropsAnchor ==
    /\ cj_pc = "done"
    /\ cj_intent.relations = <<Relation(0, 1, 1000), Relation(1, 2, NoneVal)>>
    /\ cj_result = <<>>
    /\ constraint_join_node(cj_fused, WithoutForeignRelations(cj_intent)) # <<>>

\* the partners the joiner recorded for the place as anchor
JoinerPartners(id) ==
    LET j == CHOOSE k \in DOMAIN cj_result : cj_result[k].id = id
    IN  cj_partners[j]

\* C28: in a multi-entity search the matched_partners of every place of the
\* response are the partners the joiner found for that place as anchor,
\* whatever order the ranker gave the kept anchors
C28_PartnersOfSamePlace ==
    (cj_pc = "done" /\ ~JoinSkipped(cj_intent)) =>
        \A i \in DOMAIN cj_places :
            cj_places[i].matched_partners = JoinerPartners(cj_places[i].id)

\* two kept anchors that the ranker swapped: the first place of the response
\* carries the partners found for the other one
C28_PartnersOfAnother ==
    /\ cj_pc = "done"
    /\ ~JoinSkipped(cj_intent)
    /\ Len(cj_places) = 2
    /\ cj_places[1].id = cj_result[2].id
    /\ cj_places[1].matched_partners = JoinerPartners(cj_places[2].id)
    /\ cj_places[1].matched_partners # JoinerPartners(cj_places[1].id)

\* =====================================================================
\* select_representative on clusters of its own  (app/fusion/dedupe.py)
\* =====================================================================
MaxCluster == 3

\* members differ in provider, in the review count and in the rating; None
\* and 0 are both present because sort_key maps them to the same component
RepresentativeRecords ==
    [provider : DedupeProviders,
     user_rating_count : {NoneVal, 0, 100},
     rating : {NoneVal, 0, 45}]

\* cluster_duplicates appends a member to every cluster it creates
RepresentativeClusters == SeqsUpTo(RepresentativeRecords, MaxCluster) \ {<<>>}

RepresentativeInit ==
    /\ sr_pc = "idle"
    /\ sr_cluster = <<>>
    /\ sr_result = 0

\* select_representative(cluster), from the call to the return
SelectRepresentative ==
    /\ sr_pc = "idle"
    /\ \E cluster \in RepresentativeClusters :
        /\ sr_cluster' = cluster
        /\ sr_result' = select_representative_index(cluster)
    /\ sr_pc' = "done"
    /\ UNCHANGED sr_others

\* the caller has taken the representative; the next cluster follows
NextCluster ==
    /\ sr_pc = "done"
    /\ sr_pc' = "idle"
    /\ sr_cluster' = <<>>
    /\ sr_result' = 0
    /\ UNCHANGED sr_others

RepresentativeNext == SelectRepresentative \/ NextCluster

\* a stands before b under the key: more reviews, or as many and a higher
\* rating, or as many of both and google against yelp; None counts as 0
StandsBefore(a, b) ==
    LET ca == IF a.user_rating_count = NoneVal THEN 0 ELSE a.user_rating_count
        cb == IF b.user_rating_count = NoneVal THEN 0 ELSE b.user_rating_count
        ra == IF a.rating = NoneVal THEN 0 ELSE a.rating
        rb == IF b.rating = NoneVal THEN 0 ELSE b.rating
    IN  \/ ca > cb
        \/ ca = cb /\ ra > rb
        \/ ca = cb /\ ra = rb /\ a.provider = "google" /\ b.provider # "google"

\* C18: select_representative returns a member of the cluster that no other
\* member stands before under the key (review count, then rating, then
\* google before yelp, a missing count or rating being 0), and every member
\* earlier in the cluster than the returned one stands strictly behind it
C18_MinimalAndEarliest ==
    sr_pc = "done" =>
        /\ sr_result \in DOMAIN sr_cluster
        /\ \A m \in DOMAIN sr_cluster :
              ~StandsBefore(sr_cluster[m], sr_cluster[sr_result])
        /\ \A m \in 1..(sr_result - 1) :
              StandsBefore(sr_cluster[sr_result], sr_cluster[m])

\* a cluster whose first member is beaten, and whose returned member ties on
\* the whole key with a later member that differs from it in None against 0
C18_Witness ==
    /\ sr_pc = "done"
    /\ sr_result > 1
    /\ \E m \in (sr_result + 1)..Len(sr_cluster) :
          /\ ~StandsBefore(sr_cluster[sr_result], sr_cluster[m])
          /\ sr_cluster[m] # sr_cluster[sr_result]
          /\ sr_cluster[m].user_rating_count = NoneVal

\* C21: cluster_duplicates returns the clusters in the order of the input
\* index of their first member, keeps the members of each cluster in input
\* order, and a second run on the same input list returns the same clusters
\* in the same order, whichever member the union-find made the root
C21_ClusterOrder ==
    dd_pc \in {"select", "done"} =>
        /\ \A k \in DOMAIN dd_clusters :
              \A a, b \in DOMAIN dd_clusters[k].members :
                  a < b => dd_clusters[k].members[a] < dd_clusters[k].members[b]
        /\ \A k, l \in DOMAIN dd_clusters :
              k < l => dd_clusters[k].members[1] < dd_clusters[l].members[1]
        /\ cluster_duplicates(dd_places) = ClusterMembers

\* two clusters, the first of them with a member behind the first member of
\* the second one
C21_Witness ==
    /\ dd_pc = "done"
    /\ Len(dd_clusters) = 2
    /\ dd_clusters[1].members[Len(dd_clusters[1].members)] > dd_clusters[2].members[1]

\* =====================================================================
\* BaseProvider._request_with_retry  (app/providers/base.py)
\* =====================================================================
\* an upstream answer: a status code, or NoneVal for httpx.RequestError
RetryAnswers == {[status |-> c] : c \in {200, 404, 503, NoneVal}}

RetryScripts == [1..MaxRetries -> RetryAnswers]

\* a retry decision that does not look at the status code
ShouldRetryAny(answer, attempt, max_retries) == attempt < max_retries - 1

\* the two "... and attempt < self.max_retries - 1" conditions
ShouldRetry(answer, attempt, max_retries) ==
    /\ answer.status = NoneVal \/ answer.status >= 500
    /\ attempt < max_retries - 1

\* wait_time = 2 ** attempt
WaitTime(attempt) == 2 ^ attempt

RetryInit ==
    /\ rr_pc = "idle"
    /\ rr_max = 0
    /\ rr_script = <<>>
    /\ rr_attempt = 0
    /\ rr_requests = 0
    /\ rr_waits = <<>>

\* the call: "for attempt in range(self.max_retries)"; with max_retries 0
\* the loop body never runs and "Max retries exceeded" is raised
RetryCall ==
    /\ rr_pc = "idle"
    /\ \E max_retries \in 0..MaxRetries, script \in RetryScripts :
        /\ rr_max' = max_retries
        /\ rr_script' = script
        /\ rr_pc' = IF max_retries = 0 THEN "raised" ELSE "attempt"
    /\ rr_attempt' = 0
    /\ rr_requests' = 0
    /\ rr_waits' = <<>>
    /\ UNCHANGED rr_others

\* client.request, raise_for_status and the except clauses of one attempt
RetryAttempt ==
    /\ rr_pc = "attempt"
    /\ rr_requests' = rr_requests + 1
    /\ LET answer == rr_script[rr_requests + 1] IN
        rr_pc' = IF ~RequestRaises(answer) THEN "returned"
                 ELSE IF ShouldRetry(answer, rr_attempt, rr_max) THEN "sleep"
                 ELSE "raised"
    /\ UNCHANGED <<rr_max, rr_script, rr_attempt, rr_waits, rr_others>>

\* await asyncio.sleep(wait_time); continue
RetrySleep ==
    /\ rr_pc = "sleep"
    /\ rr_waits' = Append(rr_waits, WaitTime(rr_attempt))
    /\ rr_attempt' = rr_attempt + 1
    /\ rr_pc' = "attempt"
    /\ UNCHANGED <<rr_max, rr_script, rr_requests, rr_others>>

\* the caller has the response or the ProviderError
RetryDone ==
    /\ rr_pc \in {"returned", "raised"}
    /\ rr_pc' = "idle"
    /\ rr_max' = 0
    /\ rr_script' = <<>>
    /\ rr_attempt' = 0
    /\ rr_requests' = 0
    /\ rr_waits' = <<>>
    /\ UNCHANGED rr_others

RetryNext == RetryCall \/ RetryAttempt \/ RetrySleep \/ RetryDone

\* 1, 2, 4, ...: the waits behind the first n failed attempts
Backoff(n) == [k \in 1..n |-> 2 ^ (k - 1)]

\* what a finished call has done
RetryContract ==
    LET n == rr_requests IN
      /\ n <= rr_max
      /\ \A k \in 1..(n - 1) : Retryable(rr_script[k])
      /\ rr_waits = Backoff(IF n = 0 THEN 0 ELSE n - 1)
      /\ rr_pc = "returned" => n >= 1 /\ rr_script[n].status = 200
      /\ rr_pc = "raised" =>
            \/ n = 0 /\ rr_max = 0
            \/ n >= 1 /\ rr_script[n].status \in 400..499
            \/ n = rr_max /\ Retryable(rr_script[n])

\* C23: _request_with_retry makes at most max_retries attempts and always
\* terminates; the first successful response is returned at once; a 5xx or
\* transport error on attempt k that is not the last is followed by a wait
\* of 2^k seconds and one more attempt; a 4xx raises ProviderError with no
\* further attempt and no wait; a failure on the last attempt raises
\* ProviderError without waiting
C23_BoundedBackoff ==
    /\ []((rr_pc \in {"returned", "raised"}) => RetryContract)
    /\ []((rr_pc \in {"attempt", "sleep"}) => rr_requests < rr_max /\ rr_attempt < rr_max)
    /\ ((rr_pc = "attempt") ~> (rr_pc \in {"returned", "raised"}))

\* a call that failed twice with a retryable answer, waited 1 s and 2 s, and
\* raised on a 4xx at the third attempt
C23_Witness ==
    /\ rr_pc = "raised"
    /\ rr_max = 3
    /\ rr_requests = 3
    /\ rr_waits = <<1, 2>>
    /\ rr_script[1].status = 503 /\ rr_script[2].status = NoneVal
    /\ rr_script[3].status = 404

\* what the call of one provider returned in this run, [] when the plan
\* does not name the provider
ReturnedBy(provider) ==
    IF provider \in SeqRange(ag_state.plan.providers)
    THEN SearchToolCall(ag_env[provider],
                        IF provider = "google" THEN GoogleCatalog ELSE YelpCatalog)
    ELSE <<>>

AfterFanOut ==
    {"fuse_dedupe", "constraint_join", "score_rank", "validate", "format_answer",
     "return", "done"}

\* C24: after the fan-out, for every plan, google_results holds exactly the
\* records the Google call returned and yelp_results those the Yelp call
\* returned, in upstream order; the reported google and yelp counts are
\* their lengths; the deduper is handed Google's records followed by Yelp's
C24_ResultsPerProvider ==
    /\ ag_pc \in AfterFanOut =>
          /\ ag_state.google_results = ReturnedBy("google")
          /\ ag_state.yelp_results = ReturnedBy("yelp")
    /\ ag_pc = "constraint_join" =>
          ag_state.fused_results
              = deduplicate_places(ReturnedBy("google") \o ReturnedBy("yelp"))
    /\ ag_return.returned =>
          /\ ag_return.debug.counts_before_after.google = Len(ReturnedBy("google"))
          /\ ag_return.debug.counts_before_after.yelp = Len(ReturnedBy("yelp"))

\* a run planned for Yelp alone whose Yelp records are reported as Google's
C24_YelpAsGoogle ==
    /\ ag_return.returned
    /\ ag_state.plan.providers = <<"yelp">>
    /\ ag_state.google_results = YelpCatalog
    /\ ag_state.yelp_results = <<>>
    /\ ag_return.debug.counts_before_after.google = Len(YelpCatalog)
    /\ ag_return.debug.counts_before_after.yelp = 0

\* =====================================================================
\* The embedding cache  (app/services/semantic_matcher.py get_embedding)
\* =====================================================================
\* coroutines that may be inside get_embedding at once (asyncio.gather over
\* the texts of a place, and concurrent requests)
MaxCalls == 2

\* texts handed to get_embedding: a place name, a category, another text and
\* the empty text
EmbedTexts == {"Cafe", "cafe", "park", ""}

\* cache_key = text.lower().strip()
cache_key(text) == IF text = "Cafe" THEN "cafe" ELSE text

\* response.data[0].embedding for input=text: the embedder sees the text as
\* given (not the cache key) and answers the same text with the same vector
Embedding(text) ==
    CASE text = "Cafe" -> 1
      [] text = "cafe" -> 2
      [] OTHER         -> 3

\* the empty list get_embedding returns without an embedding
NoEmbedding == 0

IdleCall == [pc |-> "idle", text |-> "", result |-> NoneVal]

EmbedInit ==
    /\ em_cache = <<>>
    /\ em_calls = [c \in 1..MaxCalls |-> IdleCall]

\* get_embedding(text) up to its first await: the empty text returns [], a
\* cached key returns the entry, otherwise the embeddings request is sent
EmbedCall(c) ==
    /\ em_calls[c].pc = "idle"
    /\ \E text \in EmbedTexts :
        em_calls' = [em_calls EXCEPT ![c] =
            IF text = "" THEN [pc |-> "done", text |-> text, result |-> NoEmbedding]
            ELSE IF cache_key(text) \in DOMAIN em_cache
            THEN [pc |-> "done", text |-> text, result |-> em_cache[cache_key(text)]]
            ELSE [pc |-> "await", text |-> text, result |-> NoneVal]]
    /\ UNCHANGED <<em_cache, em_others>>

\* the request is answered: the embedding is cached and returned
EmbedAnswered(c) ==
    /\ em_calls[c].pc = "await"
    /\ em_cache' = Put(em_cache, cache_key(em_calls[c].text), Embedding(em_calls[c].text))
    /\ em_calls' = [em_calls EXCEPT ![c].pc = "done",
                                    ![c].result = Embedding(em_calls[c].text)]
    /\ UNCHANGED em_others

\* the request raised: "except Exception: return []"
EmbedFailed(c) ==
    /\ em_calls[c].pc = "await"
    /\ em_calls' = [em_calls EXCEPT ![c].pc = "done", ![c].result = NoEmbedding]
    /\ UNCHANGED <<em_cache, em_others>>

\* the caller has the value
EmbedReturn(c) ==
    /\ em_calls[c].pc = "done"
    /\ em_calls' = [em_calls EXCEPT ![c] = IdleCall]
    /\ UNCHANGED <<em_cache, em_others>>

EmbedNext ==
    \E c \in 1..MaxCalls :
        EmbedCall(c) \/ EmbedAnswered(c) \/ EmbedFailed(c) \/ EmbedReturn(c)

\* C26: the embedding cache is write-once in every interleaving of
\* get_embedding calls: an entry that has been written is never overwritten
\* with a different value and never removed, and a call whose embedding
\* request failed writes nothing
C26_WriteOnce ==
    [][/\ \A key \in DOMAIN em_cache :
              key \in DOMAIN em_cache' /\ em_cache'[key] = em_cache[key]
       /\ \A c \in 1..MaxCalls :
              (em_calls[c].pc = "await" /\ em_calls'[c].result = NoEmbedding)
                  => em_cache' = em_cache]_vars

\* the entry of "cafe" holds the embedding of one text while a concurrent
\* call for the other text, which missed the cache earlier, is still waiting
C26_SecondWritePending ==
    /\ "cafe" \in DOMAIN em_cache
    /\ \E c \in 1..MaxCalls :
          /\ em_calls[c].pc = "await"
          /\ cache_key(em_calls[c].text) = "cafe"
          /\ Embedding(em_calls[c].text) # em_cache["cafe"]

\* the places of the response in flight or of the last response are at most
\* the top_k of the request answered, for the responses of the given sources
WithinTopK(sources) ==
    /\ (rt_pc = "store" /\ rt_resp.source \in sources)
          => Len(rt_resp.places) <= rt_req.top_k
    /\ (rt_last.status = 200 /\ rt_last.source \in sources)
          => rt_last.within_top_k

\* C27: for any sequence of /search requests, also requests that differ in
\* top_k only, every response holds at most the top_k places of the request
\* it answers, on every path: pipeline run, search-cache hit, follow-up
\* refinement and follow-up fallback
C27_AtMostTopK ==
    WithinTopK({"pipeline", "cache", "service_refine", "route_refine"})

\* the responses not read from the search cache stay within top_k
C27_UncachedWithinTopK ==
    WithinTopK({"pipeline", "service_refine", "route_refine"})

\* a request with top_k = 1 answered from the search cache with the places
\* a request with a larger top_k left there
C27_CacheHitBeyondTopK ==
    /\ rt_last.status = 200
    /\ rt_last.source = "cache"
    /\ ~rt_last.within_top_k
    /\ Len(rt_last.place_ids) > 1

\* run has returned to search
RunReturned == ag_pc \in {"done", "stored", "answered"}

\* position of the node in the try block
NodeIndex(node) == CHOOSE k \in DOMAIN TryNodes : TryNodes[k] = node

\* what run hands back after a node raised: one error, no places, and no
\* node from the raising one on has run
ErrorHandled ==
    (RunReturned /\ ag_state.errors # <<>>) =>
        /\ Len(ag_state.errors) = 1
        /\ ag_return.returned
        /\ ag_return.places = <<>>
        /\ \A k \in DOMAIN TryNodes :
              k >= NodeIndex(ag_state.errors[1])
                  => NodeTiming(TryNodes[k]) \notin ag_state.timings

\* every run's result is stored as a result set and, until the key expires,
\* lies in the search cache as the response that was returned
StoredAndCached ==
    /\ ag_pc \in {"stored", "answered"} =>
          /\ Len(sv_sets) = sv_runs
          /\ \A k \in DOMAIN sv_resp :
                /\ sv_resp[k].result_set_id \in DOMAIN sv_sets
                /\ sv_sets[sv_resp[k].result_set_id] = JsonPlaces(sv_resp[k].places)
    /\ (ag_pc = "stored" /\ sv_req = 1 /\ ~sv_cache.expired) =>
          sv_cache = CachedResponse(sv_resp[1])

\* the request sent again before the key expired is answered from the cache:
\* the same places and result set, cache_hit set, run not called again
AnsweredFromCache ==
    (sv_req = 2 /\ sv_live) =>
        /\ ag_pc = "answered"
        /\ sv_runs = 1
        /\ Len(sv_resp) = 2
        /\ ~sv_resp[1].cache_hit
        /\ sv_resp[2] = [sv_resp[1] EXCEPT !.cache_hit = TRUE]

Init == DedupeInit /\ RankInit /\ FollowupInit /\ RouteInit /\ PlaceLookupInit
        /\ StoreInit /\ ProviderInit /\ JoinInit /\ AgentInit /\ RepresentativeInit
        /\ RetryInit /\ EmbedInit /\ ServiceInit

\* one /search request sent twice to SearchService.search, nodes of the
\* agent run raising at will
SpecService == Init /\ [][ServiceNext]_vars

\* calls of deduplicate_places
SpecDedupe == Init /\ [][DedupeNext]_vars

\* calls of rank_places_async and rank_places
SpecRank == Init /\ [][RankNext]_vars

\* refinements of a stored result set by apply_followup_filters
SpecFollowup == Init /\ [][FollowupNext]_vars

\* requests to POST /search answered one after the other, and key expiry
SpecRoute == Init /\ [][RouteNext]_vars

\* requests to POST /search and GET /place/{place_id} with the clock running
SpecSession == Init /\ [][SessionNext]_vars

\* calls of ResultStore with the clock running
SpecStore == Init /\ [][StoreNext]_vars

\* calls of search_google_places and search_yelp_places
SpecProvider == Init /\ [][ProviderNext]_vars

\* calls of constraint_join_node
SpecJoin == Init /\ [][JoinNext]_vars

\* runs of DiscoveryAgent.run
SpecAgent == Init /\ [][AgentNext]_vars

\* calls of select_representative
SpecRepresentative == Init /\ [][RepresentativeNext]_vars

\* calls of _request_with_retry; the event loop resumes the coroutine after
\* every request (bounded by the client timeout) and after every sleep
SpecRetry == Init /\ [][RetryNext]_vars /\ WF_vars(RetryNext)

\* interleaved get_embedding calls
SpecEmbed == Init /\ [][EmbedNext]_vars

====
